---- MODULE Spec2Model ----
(***************************************************************************)
(* SQZ image codec (sqz.h): bit buffer, header, input validation, lists,   *)
(* scan orders, colour transforms, 5/3 integer DWT, bitplane coder and     *)
(* subband scheduler, with SQZ_encode and SQZ_decode as state machines.    *)
(***************************************************************************)
EXTENDS Integers, Sequences, FiniteSets, TLC

(***************************************************************************)
(* Program constants                                                       *)
(***************************************************************************)
SQZ_DWT_MAX_LEVEL == 8
SQZ_MIN_DIMENSION == 8
SQZ_MAX_DIMENSION == 65535
SQZ_HEADER_MAGIC == 165
SQZ_HEADER_SIZE == 6
SQZ_DWT_SUBBANDS == 4
SQZ_COLOR_MODE_COUNT == 4
SQZ_SCAN_ORDER_COUNT == 4
SQZ_COLOR_MODE_GRAYSCALE == 0
SQZ_COLOR_MODE_YCOCG_R == 1
SQZ_SCAN_ORDER_RASTER == 0
SQZ_SCAN_ORDER_SNAKE == 1
SQZ_SCAN_ORDER_MORTON == 2
SQZ_SCAN_ORDER_HILBERT == 3
SQZ_COLOR_8BPC_LEVEL_OFFSET == 128
SQZ_BIT_BUFFER_MSB == 7
SQZ_LIST_NULL == -1
SQZ_SCAN_SNAKE_DEFAULT_TILE_WIDTH == 4
SQZ_SCAN_SNAKE_DEFAULT_TILE_HEIGHT == 15

\* SQZ_status_t
SQZ_RESULT_OK == "SQZ_RESULT_OK"
SQZ_OUT_OF_MEMORY == "SQZ_OUT_OF_MEMORY"
SQZ_INVALID_PARAMETER == "SQZ_INVALID_PARAMETER"
SQZ_BUFFER_TOO_SMALL == "SQZ_BUFFER_TOO_SMALL"
SQZ_DATA_CORRUPTED == "SQZ_DATA_CORRUPTED"
\* not a status: the call has not returned yet
NO_RESULT == "none"
\* not a status: the out-of-bounds table read of SQZ_decode_header faulted
FAULT == "fault"

\* static uint8_t const SQZ_number_of_planes[SQZ_COLOR_MODE_COUNT]
SQZ_number_of_planes == [m \in 0..3 |-> IF m = 0 THEN 1 ELSE 3]

(***************************************************************************)
(* Machine arithmetic                                                      *)
(***************************************************************************)
Pow2(n) == 2 ^ n
\* A uint32_t or size_t value is held as the integer with the same low 32 bits
\* read as two's complement: 0xFFFFFFFF is -1, so a negative integer stands for
\* a value of 2^31 or more.  ULt is the unsigned comparison a < b on such values.
ULt(a, b) == IF (a < 0) = (b < 0) THEN a < b ELSE b < 0
UGt(a, b) == ULt(b, a)
UGe(a, b) == ~ULt(a, b)
\* conversion to uint16_t / int16_t (two's complement wrap)
ToU16(v) == v % 65536
ToS16(v) == LET u == v % 65536 IN IF u >= 32768 THEN u - 65536 ELSE u
\* v >> k on a signed int (arithmetic shift)
Shr(v, k) == v \div Pow2(k)
\* bit k of a value
BitAt(v, k) == (v \div Pow2(k)) % 2
Min(a, b) == IF a < b THEN a ELSE b
Max(a, b) == IF a > b THEN a ELSE b
Abs(a) == IF a < 0 THEN -a ELSE a

\* an array in memory: the function f tabulated, every element computed once
Array(f) == f @@ <<>>

\* a C loop: Step is the loop body, Done the exit test; n is a number of turns
\* the loop cannot exceed (a list is walked at most once per node it holds).
\* The turns are taken in four runs, one after the other.
RECURSIVE Iterate(_, _, _, _)
Iterate(Done(_), Step(_), s, n) ==
  IF n <= 0 \/ Done(s) THEN s
  ELSE IF n = 1 THEN Step(s)
  ELSE LET a == Iterate(Done, Step, s, (n + 3) \div 4)
           b == Iterate(Done, Step, a, (n + 2) \div 4)
           c == Iterate(Done, Step, b, (n + 1) \div 4)
       IN IF Done(a) THEN a
          ELSE IF Done(b) THEN b
          ELSE IF Done(c) THEN c
          ELSE Iterate(Done, Step, c, n \div 4)

\* Bitwise operators on operands in 0..2^31-1: Op is the operator on one bit
\* (0 on two zero bits), applied to the bits of the lowest 4-bit digit and then
\* to the digits above it
AndBit(p, q) == p * q
OrBit(p, q) == p + q - p * q
XorBit(p, q) == (p + q) % 2

Bit4(Op(_, _), x, y) ==
  Op(x % 2, y % 2) + 2 * Op((x \div 2) % 2, (y \div 2) % 2)
  + 4 * Op((x \div 4) % 2, (y \div 4) % 2) + 8 * Op(x \div 8, y \div 8)

RECURSIVE BitOp(_, _, _)
BitOp(Op(_, _), x, y) ==
  IF x = 0 /\ y = 0 THEN 0
  ELSE Bit4(Op, x % 16, y % 16) + 16 * BitOp(Op, x \div 16, y \div 16)

BitAnd(a, b) == BitOp(AndBit, a, b)
BitOr(a, b) == BitOp(OrBit, a, b)
BitXor(a, b) == BitOp(XorBit, a, b)

\* a | b on int16_t operands, stored back to int16_t
Or16(a, b) == ToS16(BitOr(ToU16(a), ToU16(b)))
\* a & b on int16_t operands (result as the unsigned 16-bit pattern)
And16(a, b) == BitAnd(ToU16(a), ToU16(b))

RECURSIVE BitLength(_)
BitLength(x) == IF x = 0 THEN 0 ELSE 1 + BitLength(x \div 2)

\* SQZ_ilog2 (GNUC variant): 32 - clz(x) for x != 0, else 0
SQZ_ilog2(x) == IF x < 0 THEN 32 ELSE BitLength(x)

(***************************************************************************)
(* Bit buffer: data is the backing memory (byte offsets 0..eob-1), ptr the *)
(* offset of the current byte, eob the capacity, index the next bit.       *)
(***************************************************************************)
\* SQZ_bit_buffer_init with the last byte of the memory left out
BitBufferInitShort(source, capacity) ==
  [data |-> source, ptr |-> 0, eob |-> capacity - 1, index |-> 0]

SQZ_bit_buffer_init(source, capacity) ==
  [data |-> source, ptr |-> 0, eob |-> capacity, index |-> 0]

\* SQZ_bit_buffer_eob answering one byte late
EobPastEnd(buffer) == buffer.ptr > buffer.eob
\* SQZ_bit_buffer_eob answering one byte early
EobEarly(buffer) == buffer.ptr + 1 >= buffer.eob

SQZ_bit_buffer_eob(buffer) == buffer.ptr >= buffer.eob

SQZ_bit_buffer_bits_used(buffer) == buffer.ptr * 8 + buffer.index

\* the index/ptr advance shared by write_bit and read_bit
BitAdvance(buffer) ==
  IF buffer.index < SQZ_BIT_BUFFER_MSB
    THEN [buffer EXCEPT !.index = @ + 1]
    ELSE [buffer EXCEPT !.ptr = @ + 1, !.index = 0]

\* returns [ok, buf]
SQZ_bit_buffer_write_bit(buffer, bit) ==
  IF SQZ_bit_buffer_eob(buffer) THEN [ok |-> FALSE, buf |-> buffer]
  ELSE LET byte == BitOr(buffer.data[buffer.ptr],
                         (bit * Pow2(SQZ_BIT_BUFFER_MSB - buffer.index)) % 256)
           b1 == [buffer EXCEPT !.data[buffer.ptr] = byte]
       IN [ok |-> TRUE, buf |-> BitAdvance(b1)]

\* BitCarry with the step to the next byte left out
BitCarryNever(buffer) == buffer
\* the step to the next byte once the last bit of a byte is used
BitCarry(buffer) ==
  IF buffer.index > SQZ_BIT_BUFFER_MSB
    THEN [buffer EXCEPT !.ptr = @ + 1, !.index = 0] ELSE buffer

RECURSIVE SQZ_bit_buffer_write_bits(_, _, _)
SQZ_bit_buffer_write_bits(buffer, bits, width) ==
  IF SQZ_bit_buffer_eob(buffer) THEN [ok |-> FALSE, buf |-> buffer]
  ELSE
    LET bits_free == (SQZ_BIT_BUFFER_MSB + 1) - buffer.index IN
    IF bits_free >= width
      THEN LET v == ((bits % Pow2(width)) * Pow2(bits_free - width)) % 256
           IN [ok |-> TRUE,
               buf |-> BitCarry([buffer EXCEPT !.data[buffer.ptr] = BitOr(@, v),
                                               !.index = @ + width])]
      ELSE LET \* bits >> (width - bits_free), a shift of 31 at most
               high == IF width - bits_free >= 31 THEN (IF bits < 0 THEN 1 ELSE 0)
                       ELSE bits \div Pow2(width - bits_free)
               v == high % Pow2(bits_free)
           IN SQZ_bit_buffer_write_bits(
                [buffer EXCEPT !.data[buffer.ptr] = BitOr(@, v), !.ptr = @ + 1, !.index = 0],
                bits, width - bits_free)

\* SQZ_bit_buffer_read_bit taking the bits of a byte from the least
\* significant one
ReadBitLsbFirst(buffer) ==
  IF SQZ_bit_buffer_eob(buffer) THEN [bit |-> -1, buf |-> buffer]
  ELSE [bit |-> BitAt(buffer.data[buffer.ptr], buffer.index), buf |-> BitAdvance(buffer)]
\* returns [bit, buf]; bit = -1 at end of buffer
SQZ_bit_buffer_read_bit(buffer) ==
  IF SQZ_bit_buffer_eob(buffer) THEN [bit |-> -1, buf |-> buffer]
  ELSE [bit |-> BitAt(buffer.data[buffer.ptr], SQZ_BIT_BUFFER_MSB - buffer.index),
        buf |-> BitAdvance(buffer)]

\* bits <<= k on the int32_t accumulator of SQZ_bit_buffer_read_bits, k in
\* 0..8: the low 32 bits of the product, read as two's complement
Shl32(bits, k) ==
  IF k = 0 THEN bits
  ELSE IF (bits \div Pow2(31 - k)) % 2 = 1
    THEN ((bits % Pow2(31 - k)) * Pow2(k) - 1073741824) - 1073741824
  ELSE (bits % Pow2(31 - k)) * Pow2(k)

\* the loop of SQZ_bit_buffer_read_bits with its accumulator; returns [bits, buf]
RECURSIVE ReadBitsLoop(_, _, _)
ReadBitsLoop(buffer, width, bits) ==
  IF SQZ_bit_buffer_eob(buffer) THEN [bits |-> -1, buf |-> buffer]
  ELSE
    LET bits_available == (SQZ_BIT_BUFFER_MSB + 1) - buffer.index IN
    IF bits_available >= width
      THEN LET v == (buffer.data[buffer.ptr] \div Pow2(bits_available - width)) % Pow2(width)
           IN [bits |-> Shl32(bits, width) + v,
               buf |-> BitCarry([buffer EXCEPT !.index = @ + width])]
      ELSE LET v == buffer.data[buffer.ptr] % Pow2(bits_available)
           IN ReadBitsLoop([buffer EXCEPT !.ptr = @ + 1, !.index = 0],
                           width - bits_available, Shl32(bits, bits_available) + v)

SQZ_bit_buffer_read_bits(buffer, width) == ReadBitsLoop(buffer, width, 0)

(***************************************************************************)
(* Image descriptor (SQZ_image_descriptor_t).  color_mode and scan_order   *)
(* hold the enum's unsigned value.                                         *)
(***************************************************************************)
Descriptor(cm, so, w, h, lv, np, ss) ==
  [color_mode |-> cm, scan_order |-> so, width |-> w, height |-> h,
   dwt_levels |-> lv, num_planes |-> np, subsampling |-> ss]

\* SQZ_context_t ctx = { 0 }: the zero-initialised descriptor
ZeroDescriptor == Descriptor(0, 0, 0, 0, 0, 0, 0)

\* !!x
Bool01(x) == IF x # 0 THEN 1 ELSE 0

\* the same with the height written before the width
HeaderFieldsHeightFirst(descriptor) ==
  << <<SQZ_HEADER_MAGIC, 8>>, <<descriptor.height - 1, 16>>, <<descriptor.width - 1, 16>>,
     <<descriptor.color_mode, 2>>, <<descriptor.dwt_levels - 1, 3>>,
     <<descriptor.scan_order, 2>> >>

\* the fields SQZ_encode_header writes with SQZ_bit_buffer_write_bits: <<bits, width>>
HeaderFields(descriptor) ==
  << <<SQZ_HEADER_MAGIC, 8>>, <<descriptor.width - 1, 16>>, <<descriptor.height - 1, 16>>,
     <<descriptor.color_mode, 2>>, <<descriptor.dwt_levels - 1, 3>>,
     <<descriptor.scan_order, 2>> >>

HeaderDone(s) == s.k > Len(s.fields)
HeaderStep(s) ==
  [s EXCEPT !.buf = SQZ_bit_buffer_write_bits(@, s.fields[s.k][1], s.fields[s.k][2]).buf,
            !.k = @ + 1]

\* return !SQZ_bit_buffer_eob(buffer)
HeaderReturn(buffer) == [buf |-> buffer, ok |-> ~SQZ_bit_buffer_eob(buffer)]

\* the same returning 1 whatever the buffer holds
EncodeHeaderUnchecked(descriptor, buffer) ==
  [buf |-> SQZ_bit_buffer_write_bit(
             Iterate(HeaderDone, HeaderStep,
                     [buf |-> buffer, fields |-> HeaderFields(descriptor), k |-> 1], 6).buf,
             Bool01(descriptor.subsampling)).buf,
   ok |-> TRUE]
\* returns [ok, buf]; the results of the individual writes are ignored
SQZ_encode_header(descriptor, buffer) ==
  HeaderReturn(
    SQZ_bit_buffer_write_bit(
      Iterate(HeaderDone, HeaderStep,
              [buf |-> buffer, fields |-> HeaderFields(descriptor), k |-> 1], 6).buf,
      Bool01(descriptor.subsampling)).buf)

\* SQZ_number_of_planes[color_mode + 1]: the table read one entry too far
PlanesLookupNext(color_mode, oob) ==
  IF color_mode + 1 \in 0..3 THEN SQZ_number_of_planes[color_mode + 1] ELSE oob

\* SQZ_number_of_planes[color_mode]; outside 0..3 the read is out of bounds and
\* yields oob (a byte of neighbouring memory), or faults when oob = -1
PlanesLookup(color_mode, oob) ==
  IF color_mode \in 0..3 THEN SQZ_number_of_planes[color_mode] ELSE oob

\* the widths of the fields SQZ_decode_header reads with SQZ_bit_buffer_read_bits
\* after the magic byte: width - 1, height - 1, color mode, dwt_levels - 1, scan order
HeaderWidths == <<16, 16, 2, 3, 2>>

\* one SQZ_bit_buffer_read_bits of SQZ_decode_header: r is what it returned
HeaderRead(s, r) == [s EXCEPT !.buf = r.buf, !.bits = Append(@, r.bits), !.k = @ + 1]
HeaderReadDone(s) == s.k > Len(HeaderWidths)
HeaderReadStep(s) == HeaderRead(s, SQZ_bit_buffer_read_bits(s.buf, HeaderWidths[s.k]))

\* the end of SQZ_decode_header: bits are the five fields read, np the table
\* entry of the colour mode, r6 what the read of the subsampling bit returned
HeaderReadReturn(descriptor, bits, np, buffer, r6) ==
  IF np = -1
    THEN [ok |-> FALSE, fault |-> TRUE, descriptor |-> descriptor, buf |-> buffer]
    ELSE [ok |-> ~SQZ_bit_buffer_eob(r6.buf), fault |-> FALSE,
          descriptor |-> Descriptor(bits[3], bits[5], bits[1] + 1, bits[2] + 1,
                                    bits[4] + 1, np, Bool01(r6.bit)),
          buf |-> r6.buf]

\* the reads of SQZ_decode_header done (s), the table lookup and the last read
HeaderReadEnd(descriptor, s, oob) ==
  HeaderReadReturn(descriptor, s.bits, PlanesLookup(s.bits[3], oob), s.buf,
                   SQZ_bit_buffer_read_bit(s.buf))

\* SQZ_decode_header after the magic byte; r0 is what the read of the magic
\* byte returned
DecodeHeaderFields(descriptor, r0, oob) ==
  HeaderReadEnd(descriptor,
                Iterate(HeaderReadDone, HeaderReadStep,
                        [buf |-> r0.buf, bits |-> <<>>, k |-> 1], 5),
                oob)

\* SQZ_decode_header from the read of the magic byte (r0) on
DecodeHeaderMagic(descriptor, r0, oob) ==
  IF r0.bits # SQZ_HEADER_MAGIC
    THEN [ok |-> FALSE, fault |-> FALSE, descriptor |-> descriptor, buf |-> r0.buf]
    ELSE DecodeHeaderFields(descriptor, r0, oob)

\* SQZ_decode_header without the test of the magic byte
DecodeHeaderAnyMagic(descriptor, buffer, oob) ==
  DecodeHeaderFields(descriptor, SQZ_bit_buffer_read_bits(buffer, 8), oob)

\* returns [ok, fault, descriptor, buf]; descriptor is ctx.image afterwards
SQZ_decode_header(descriptor, buffer, oob) ==
  DecodeHeaderMagic(descriptor, SQZ_bit_buffer_read_bits(buffer, 8), oob)

\* the level clamp with ilog2(smallest dimension) - 2 in place of - 3
MaxLevelOneMore(descriptor) ==
  LET smallest_dimension == IF UGt(descriptor.width, descriptor.height)
                              THEN descriptor.height ELSE descriptor.width
      max_level == SQZ_ilog2(smallest_dimension) - 2
  IN IF UGt(max_level, SQZ_DWT_MAX_LEVEL) THEN SQZ_DWT_MAX_LEVEL ELSE max_level

\* the level clamp of SQZ_validate_input: ilog2(smallest dimension) - 3, at most 8
MaxLevel(descriptor) ==
  LET smallest_dimension == IF UGt(descriptor.width, descriptor.height)
                              THEN descriptor.height ELSE descriptor.width
      max_level == SQZ_ilog2(smallest_dimension) - 3
  IN IF UGt(max_level, SQZ_DWT_MAX_LEVEL) THEN SQZ_DWT_MAX_LEVEL ELSE max_level

\* the range checks without the one of dwt_levels
OutOfRangeButLevels(descriptor) ==
  \/ ULt(descriptor.width, SQZ_MIN_DIMENSION) \/ UGt(descriptor.width, SQZ_MAX_DIMENSION)
  \/ ULt(descriptor.height, SQZ_MIN_DIMENSION) \/ UGt(descriptor.height, SQZ_MAX_DIMENSION)
  \/ ULt(descriptor.color_mode, SQZ_COLOR_MODE_GRAYSCALE)
  \/ UGe(descriptor.color_mode, SQZ_COLOR_MODE_COUNT)
  \/ ULt(descriptor.scan_order, SQZ_SCAN_ORDER_RASTER)
  \/ UGe(descriptor.scan_order, SQZ_SCAN_ORDER_COUNT)

\* the range checks of SQZ_validate_input (TRUE when a field is out of range)
OutOfRange(descriptor) ==
  \/ ULt(descriptor.width, SQZ_MIN_DIMENSION) \/ UGt(descriptor.width, SQZ_MAX_DIMENSION)
  \/ ULt(descriptor.height, SQZ_MIN_DIMENSION) \/ UGt(descriptor.height, SQZ_MAX_DIMENSION)
  \/ ULt(descriptor.color_mode, SQZ_COLOR_MODE_GRAYSCALE)
  \/ UGe(descriptor.color_mode, SQZ_COLOR_MODE_COUNT)
  \/ ULt(descriptor.scan_order, SQZ_SCAN_ORDER_RASTER)
  \/ UGe(descriptor.scan_order, SQZ_SCAN_ORDER_COUNT)
  \/ descriptor.dwt_levels = 0 \/ UGt(descriptor.dwt_levels, SQZ_DWT_MAX_LEVEL)

\* SQZ_validate_input taking every call for the encoder's (read_only ignored)
ValidateAsEncoder(descriptor, read_only) ==
  IF OutOfRange(descriptor)
    THEN [result |-> SQZ_INVALID_PARAMETER, descriptor |-> descriptor]
  ELSE
    LET d1 == IF UGt(descriptor.dwt_levels, MaxLevel(descriptor))
                THEN [descriptor EXCEPT !.dwt_levels = MaxLevel(descriptor)]
                ELSE descriptor
    IN [result |-> SQZ_RESULT_OK,
        descriptor |-> [d1 EXCEPT !.num_planes = SQZ_number_of_planes[d1.color_mode]]]

\* returns [result, descriptor]
SQZ_validate_input(descriptor, read_only) ==
  IF OutOfRange(descriptor)
    THEN [result |-> IF read_only # 0 THEN SQZ_DATA_CORRUPTED ELSE SQZ_INVALID_PARAMETER,
          descriptor |-> descriptor]
  ELSE IF UGt(descriptor.dwt_levels, MaxLevel(descriptor)) /\ read_only # 0
    THEN [result |-> SQZ_DATA_CORRUPTED, descriptor |-> descriptor]
  ELSE
    LET d1 == IF UGt(descriptor.dwt_levels, MaxLevel(descriptor))
                THEN [descriptor EXCEPT !.dwt_levels = MaxLevel(descriptor)]
                ELSE descriptor
        d2 == IF read_only = 0
                THEN [d1 EXCEPT !.num_planes = SQZ_number_of_planes[d1.color_mode]]
                ELSE d1
    IN [result |-> SQZ_RESULT_OK, descriptor |-> d2]

(***************************************************************************)
(* Node cache and lists.  A node pointer is the node's index in the cache, *)
(* NULL is -1.  The three lists of a subband are the fields LIP, LSP and   *)
(* NSP of the band record; an operation names the list by its field name.  *)
(***************************************************************************)
NULL == SQZ_LIST_NULL

\* calloc(capacity, sizeof(SQZ_list_node_t)) succeeded
SQZ_node_cache_init(capacity) ==
  [nodes |-> Array([i \in 0..(capacity - 1) |-> [x |-> 0, y |-> 0, next |-> 0]]),
   capacity |-> capacity, index |-> 0]

\* SQZ_list_init
EmptyList == [head |-> NULL, tail |-> NULL, length |-> 0]

\* returns the node after `node`, or NULL
SQZ_list_node_next(band, node) ==
  IF band.cache.nodes[node].next > SQZ_LIST_NULL THEN band.cache.nodes[node].next ELSE NULL

\* returns the band with (x, y) appended to list L
SQZ_list_add(band, L, x, y) ==
  LET cache == band.cache
      list == band[L]
      node == cache.index
  IN IF cache.index >= cache.capacity THEN band
     ELSE
       LET n1 == IF list.head = NULL THEN cache.nodes
                 ELSE IF list.tail # NULL
                   THEN [cache.nodes EXCEPT ![list.tail].next = cache.index]
                   ELSE cache.nodes
           n2 == [n1 EXCEPT ![node] = [x |-> ToU16(x), y |-> ToU16(y), next |-> SQZ_LIST_NULL]]
           l1 == [head |-> IF list.head = NULL THEN node ELSE list.head,
                  tail |-> node, length |-> list.length + 1]
       IN [band EXCEPT ![L] = l1,
                       !.cache = [cache EXCEPT !.nodes = n2, !.index = @ + 1]]

\* returns [band, next]: node moved from list S to the tail of list D
SQZ_list_exchange(band, S, D, node, prv) ==
  LET nodes == band.cache.nodes
      source == band[S]
      dest == band[D]
      next == SQZ_list_node_next(band, node)
      n1 == IF prv # NULL THEN [nodes EXCEPT ![prv].next = nodes[node].next] ELSE nodes
      s1 == [source EXCEPT !.head = IF prv # NULL THEN @ ELSE next, !.length = @ - 1]
      n2 == IF dest.head = NULL THEN n1
            ELSE IF dest.tail # NULL THEN [n1 EXCEPT ![dest.tail].next = node]
            ELSE n1
      d1 == [head |-> IF dest.head = NULL THEN node ELSE dest.head,
             tail |-> node, length |-> dest.length + 1]
      n3 == [n2 EXCEPT ![node].next = SQZ_LIST_NULL]
  IN [band |-> [band EXCEPT ![S] = s1, ![D] = d1, !.cache.nodes = n3], next |-> next]

\* the same with the nodes of S dropped rather than appended to D
ListMergeDropSource(band, S, D) ==
  IF band[S].head = NULL THEN band ELSE [band EXCEPT ![S] = EmptyList]
\* SQZ_list_merge putting the nodes of S before those of D
ListMergeAtHead(band, S, D) ==
  LET source == band[S]
      dest == band[D]
  IN IF source.head = NULL THEN band
     ELSE
       LET n1 == IF dest.head # NULL
                   THEN [band.cache.nodes EXCEPT ![source.tail].next = dest.head]
                   ELSE band.cache.nodes
           d1 == [head |-> source.head,
                  tail |-> IF dest.tail # NULL THEN dest.tail ELSE source.tail,
                  length |-> dest.length + source.length]
       IN [band EXCEPT ![D] = d1, ![S] = EmptyList, !.cache.nodes = n1]
\* returns the band with list S appended to list D and S cleared
SQZ_list_merge(band, S, D) ==
  LET source == band[S]
      dest == band[D]
  IN IF source.head = NULL THEN band
     ELSE
       LET n1 == IF dest.tail # NULL
                   THEN [band.cache.nodes EXCEPT ![dest.tail].next = source.head]
                   ELSE band.cache.nodes
           d1 == [head |-> IF dest.tail # NULL THEN dest.head ELSE source.head,
                  tail |-> source.tail, length |-> dest.length + source.length]
       IN [band EXCEPT ![D] = d1, ![S] = EmptyList, !.cache.nodes = n1]

\* the positions <<x, y>> of a list, walking the next links from its head
ListWalkDone(s) == s.node = NULL
ListWalkStep(s) ==
  [s EXCEPT !.out = Append(@, <<s.band.cache.nodes[s.node].x, s.band.cache.nodes[s.node].y>>),
            !.node = SQZ_list_node_next(s.band, s.node)]
ListFrom(band, node) ==
  Iterate(ListWalkDone, ListWalkStep, [band |-> band, node |-> node, out |-> <<>>],
          band.cache.capacity).out

ListSeq(band, L) == ListFrom(band, band[L].head)

(***************************************************************************)
(* Bit interleaving                                                        *)
(***************************************************************************)
\* the shift-and-mask stages of the two bit shuffles: <<2^shift, mask>>
DeinterleaveStages ==
  << <<2, 858993459>>, <<4, 252645135>>, <<16, 16711935>>, <<256, 65535>> >>
InterleaveStages ==
  << <<256, 16711935>>, <<16, 252645135>>, <<4, 858993459>>, <<2, 1431655765>> >>

ShuffleDone(s) == s.k > Len(s.stages)
\* i = (i ^ (i >> shift)) & mask
DeinterleaveStep(s) ==
  LET st == s.stages[s.k]
  IN [s EXCEPT !.i = BitAnd(BitXor(@, @ \div st[1]), st[2]), !.k = @ + 1]
\* i = (i ^ (i << shift)) & mask
InterleaveStep(s) ==
  LET st == s.stages[s.k]
  IN [s EXCEPT !.i = BitAnd(BitXor(@, @ * st[1]), st[2]), !.k = @ + 1]

\* packs the even bits of i into the low 16 bits
SQZ_deinterleave_u32_to_u16(i) ==
  Iterate(ShuffleDone, DeinterleaveStep,
          [i |-> BitAnd(i, 1431655765), stages |-> DeinterleaveStages, k |-> 1],
          Len(DeinterleaveStages)).i

\* spreads the low 16 bits of i over the even bits
SQZ_interleave_u16_to_u32(i) ==
  Iterate(ShuffleDone, InterleaveStep,
          [i |-> BitAnd(i, 65535), stages |-> InterleaveStages, k |-> 1],
          Len(InterleaveStages)).i

(***************************************************************************)
(* Scan orders.  A scan context is [type, workspace, x, y, width, height]; *)
(* a step returns [more, ctx].                                             *)
(***************************************************************************)
NoWorkspace == [kind |-> "none"]

\* SQZ_scan_context_t scan = { 0 }; scan.type = scan_order
NewScanContext(type) ==
  [type |-> type, workspace |-> NoWorkspace, x |-> 0, y |-> 0, width |-> 0, height |-> 0]

\* the same with the end of a row taken one position late
ScanRasterPastEnd(ctx) ==
  LET x1 == ctx.x + 1 IN
  IF x1 > ctx.width
    THEN LET c1 == [ctx EXCEPT !.x = 0, !.y = @ + 1]
         IN [more |-> ~(c1.y >= c1.height), ctx |-> c1]
    ELSE [more |-> TRUE, ctx |-> [ctx EXCEPT !.x = x1]]
SQZ_scan_raster(ctx) ==
  LET x1 == ctx.x + 1 IN
  IF x1 >= ctx.width
    THEN LET c1 == [ctx EXCEPT !.x = 0, !.y = @ + 1]
         IN [more |-> ~(c1.y >= c1.height), ctx |-> c1]
    ELSE [more |-> TRUE, ctx |-> [ctx EXCEPT !.x = x1]]

SQZ_scan_init_raster_context(ctx, width, height) ==
  [ctx EXCEPT !.type = SQZ_SCAN_ORDER_RASTER, !.x = 0, !.y = 0,
              !.width = width, !.height = height]

\* label loop_tile_columns of SQZ_scan_snake
SnakeTileColumns(ctx, snake) ==
  LET x == (IF snake.tile_columns_right_to_left # 0
              THEN (snake.tile_width - 1) - snake.tile_x ELSE snake.tile_x) + snake.offsets_x
      y == (IF snake.grid_columns_odd # 0
              THEN (snake.tile_height - 1) - snake.tile_y ELSE snake.tile_y) + snake.offsets_y
  IN [more |-> TRUE, ctx |-> [ctx EXCEPT !.x = x, !.y = y, !.workspace = snake]]

\* label loop_tile_rows
SnakeTileRows(ctx, snake) ==
  LET row == IF snake.grid_columns_odd # 0
               THEN (snake.tile_height - 1) - snake.tile_y ELSE snake.tile_y
  IN SnakeTileColumns(ctx,
       [snake EXCEPT !.tile_columns_right_to_left = (snake.grid_y + row) % 2])

\* label loop_grid_columns
SnakeGridColumns(ctx, snake) ==
  LET width == snake.grid_width - 1
      gx == IF snake.grid_rows_odd # 0 THEN width - snake.grid_columns_index
            ELSE snake.grid_columns_index
  IN SnakeTileRows(ctx,
       [snake EXCEPT !.grid_x = gx,
                     !.grid_columns_odd = gx % 2,
                     !.tile_width = IF gx < width THEN snake.tile_defaults_width
                                    ELSE snake.tile_columns_remaining,
                     !.offsets_x = gx * snake.tile_defaults_width])

SQZ_scan_snake(ctx) ==
  LET s0 == ctx.workspace
      s1 == [s0 EXCEPT !.tile_x = @ + 1]
  IN IF s1.tile_x < s1.tile_width THEN SnakeTileColumns(ctx, s1)
     ELSE
       LET s2 == [s1 EXCEPT !.tile_x = 0, !.tile_y = @ + 1] IN
       IF s2.tile_y < s2.tile_height THEN SnakeTileRows(ctx, s2)
       ELSE
         LET s3 == [s2 EXCEPT !.tile_y = 0, !.grid_columns_index = @ + 1] IN
         IF s3.grid_columns_index < s3.grid_width THEN SnakeGridColumns(ctx, s3)
         ELSE
           LET s4 == [s3 EXCEPT !.grid_columns_index = 0, !.grid_y = @ + 1] IN
           IF s4.grid_y < s4.grid_height
             THEN SnakeGridColumns(ctx,
                    [s4 EXCEPT !.grid_rows_odd = s4.grid_y % 2,
                               !.tile_height = IF s4.grid_y < s4.grid_height - 1
                                                 THEN s4.tile_defaults_height
                                                 ELSE s4.tile_rows_remaining,
                               !.offsets_y = s4.grid_y * s4.tile_defaults_height])
             ELSE [more |-> FALSE, ctx |-> [ctx EXCEPT !.workspace = s4]]

\* -(abs(step) + k) * sign(step)
SnakeNextStep(step, k) == -(Abs(step) + k) * (IF step > 0 THEN 1 ELSE IF step < 0 THEN -1 ELSE 0)

\* size_t t += step, then the clamps: a wrapped (negative) sum is above `limit`
SnakeClamp(t, step, limit) ==
  LET t1 == t + step IN
  IF t1 < 0 \/ t1 > limit THEN limit ELSE IF t1 = 0 THEN 1 ELSE t1

\* the loop making the grid's column count odd; returns [tile_width, grid_width]
RECURSIVE SnakeOddColumns(_, _, _)
SnakeOddColumns(width, tile_width, step) ==
  LET grid_width == (width + tile_width - 1) \div tile_width IN
  IF grid_width % 2 = 0
    THEN SnakeOddColumns(width, SnakeClamp(tile_width, step, width), SnakeNextStep(step, 1))
    ELSE [tile_width |-> tile_width, grid_width |-> grid_width]

\* the loop making the last tile row's height odd; returns [tile_height, remaining]
RECURSIVE SnakeOddRows(_, _, _)
SnakeOddRows(height, tile_height, step) ==
  LET remaining == height % tile_height IN
  IF remaining > 0 /\ remaining % 2 = 0
    THEN SnakeOddRows(height, SnakeClamp(tile_height, step, height), SnakeNextStep(step, 2))
    ELSE [tile_height |-> tile_height,
          remaining |-> IF remaining = 0 THEN tile_height ELSE remaining]

SQZ_scan_init_snake_context(ctx, width, height, tile_width0, tile_height0) ==
  LET tw0 == IF tile_width0 > width THEN width ELSE tile_width0
      th0 == IF tile_height0 > height THEN height ELSE tile_height0
      \* the workspace for the tile sizes the two loops end with
      Snake(tile_width, grid_width, col_rem, tile_height, row_rem, grid_height) ==
        [kind |-> "snake",
         tile_x |-> 0, tile_y |-> 0,
         tile_width |-> IF grid_width > 1 \/ col_rem > 0 THEN tile_width ELSE col_rem,
         tile_height |-> IF grid_height > 1 \/ row_rem > 0 THEN tile_height ELSE row_rem,
         tile_columns_remaining |-> col_rem,
         tile_columns_right_to_left |-> 0,
         tile_rows_remaining |-> row_rem,
         tile_defaults_width |-> tile_width,
         tile_defaults_height |-> tile_height,
         grid_x |-> 0, grid_y |-> 0,
         grid_width |-> grid_width, grid_height |-> grid_height,
         grid_columns_index |-> 0, grid_columns_odd |-> 0, grid_rows_odd |-> 0,
         offsets_x |-> 0, offsets_y |-> 0]
      Tiles(cols, rows) ==
        Snake(cols.tile_width, cols.grid_width,
              IF width % cols.tile_width = 0 THEN cols.tile_width ELSE width % cols.tile_width,
              rows.tile_height, rows.remaining,
              (height + rows.tile_height - 1) \div rows.tile_height)
  IN [ctx EXCEPT !.type = SQZ_SCAN_ORDER_SNAKE,
                 !.workspace = Tiles(SnakeOddColumns(width, tw0, 1), SnakeOddRows(height, th0, 2)),
                 !.x = 0, !.y = 0]

\* the do-while of SQZ_scan_morton
RECURSIVE SQZ_scan_morton(_)
SQZ_scan_morton(ctx) ==
  LET morton == ctx.workspace
      index == morton.index + 1
      \* the while condition, c1 being the context with the new position
      Visit(c1) ==
        IF c1.x < ctx.width /\ c1.y < ctx.height THEN [more |-> TRUE, ctx |-> c1]
        ELSE IF index < morton.length THEN SQZ_scan_morton(c1)
        ELSE [more |-> FALSE, ctx |-> c1]
      \* x0, y0 from the low bits of the index, m from the bits above them
      Place(x0, y0, m) ==
        Visit([ctx EXCEPT !.x = IF ctx.width > ctx.height THEN BitOr(x0, m) ELSE x0,
                          !.y = IF ctx.width > ctx.height THEN y0 ELSE BitOr(y0, m),
                          !.workspace.index = index])
      Split(low) ==
        Place(SQZ_deinterleave_u32_to_u16(low),
              SQZ_deinterleave_u32_to_u16(BitAnd(index \div 2, morton.mask)),
              (index - low) \div Pow2(morton.range))
  IN Split(BitAnd(index, morton.mask))

SQZ_scan_init_morton_context(ctx, width, height) ==
  LET range == SQZ_ilog2((IF width > height THEN height ELSE width) - 1)
      morton == [kind |-> "morton",
                 range |-> range,
                 mask |-> Pow2(range * 2) - 1,
                 index |-> 0,
                 length |-> Pow2(range + SQZ_ilog2((IF width > height THEN width ELSE height) - 1))]
  IN [ctx EXCEPT !.type = SQZ_SCAN_ORDER_MORTON, !.workspace = morton,
                 !.x = 0, !.y = 0, !.width = width, !.height = height]

\* C integer division by 2 (truncation toward zero) and SQZ_sign
Half(a) == IF a < 0 THEN -((-a) \div 2) ELSE a \div 2
SQZ_sign(x) == IF x < 0 THEN -1 ELSE IF x > 0 THEN 1 ELSE 0

HilbertItem(x, y, ax, ay, bx, by) ==
  [x |-> x, y |-> y, ax |-> ax, ay |-> ay, bx |-> bx, by |-> by]

\* items[stack.index] = item; stack.index++ (items has the 32 slots 0..31)
SQZ_scan_hilbert_stack_push(hilbert, x, y, ax, ay, bx, by) ==
  [hilbert EXCEPT !.items = IF hilbert.sindex \in DOMAIN hilbert.items
                              THEN [@ EXCEPT ![hilbert.sindex] = HilbertItem(x, y, ax, ay, bx, by)]
                              ELSE @,
                  !.sindex = @ + 1]

\* the two or three pushes that split the region on top of the stack
HilbertSplit(h, current) ==
  LET ax2 == Half(current.ax)
      ay2 == Half(current.ay)
      bx2 == Half(current.bx)
      by2 == Half(current.by)
      \* the wide region cut at (ax3, ay3)
      Wide(ax3, ay3) ==
        SQZ_scan_hilbert_stack_push(
          SQZ_scan_hilbert_stack_push(h, current.x + ax3, current.y + ay3,
            current.ax - ax3, current.ay - ay3, current.bx, current.by),
          current.x, current.y, ax3, ay3, current.bx, current.by)
      \* the other regions cut at (bx3, by3)
      Tall(bx3, by3) ==
        SQZ_scan_hilbert_stack_push(
          SQZ_scan_hilbert_stack_push(
            SQZ_scan_hilbert_stack_push(h,
              current.x + (current.ax - h.dax) + (bx3 - h.dbx),
              current.y + (current.ay - h.day) + (by3 - h.dby),
              -bx3, -by3, -(current.ax - ax2), -(current.ay - ay2)),
            current.x + bx3, current.y + by3,
            current.ax, current.ay, current.bx - bx3, current.by - by3),
          current.x, current.y, bx3, by3, ax2, ay2)
      WideAdjust(adj) == Wide(IF adj THEN ax2 + h.dax ELSE ax2, IF adj THEN ay2 + h.day ELSE ay2)
      TallAdjust(adj) == Tall(IF adj THEN bx2 + h.dbx ELSE bx2, IF adj THEN by2 + h.dby ELSE by2)
  IN IF 2 * h.width > 3 * h.height
       THEN WideAdjust((Abs(ax2 + ay2) % 2) # 0 /\ h.width > 2)
       ELSE TallAdjust((Abs(bx2 + by2) % 2) # 0 /\ h.height > 2)

\* label loop of SQZ_scan_hilbert
RECURSIVE SQZ_scan_hilbert(_)
SQZ_scan_hilbert(ctx) ==
  LET h0 == ctx.workspace
      top == h0.sindex - 1
      item == h0.items[top]
      \* one step along the line (dx, dy) the region on top of the stack is
      Line(h, dx, dy) ==
        [more |-> TRUE,
         ctx |-> [ctx EXCEPT !.x = item.x, !.y = item.y,
                             !.workspace = [h EXCEPT !.items[top].x = @ + dx,
                                                     !.items[top].y = @ + dy,
                                                     !.index = @ + 1]]]
      Pop(h) == [h EXCEPT !.sindex = @ - 1, !.index = -1]
      \* h is the workspace with the region on top of the stack started
      Region(h) ==
        IF h.height = 1
          THEN IF h.index < h.width THEN Line(h, h.dax, h.day)
               ELSE SQZ_scan_hilbert([ctx EXCEPT !.workspace = Pop(h)])
        ELSE IF h.width = 1
          THEN IF h.index < h.height THEN Line(h, h.dbx, h.dby)
               ELSE SQZ_scan_hilbert([ctx EXCEPT !.workspace = Pop(h)])
        ELSE SQZ_scan_hilbert([ctx EXCEPT !.workspace = HilbertSplit(Pop(h), item)])
  IN IF h0.sindex = 0 THEN [more |-> FALSE, ctx |-> ctx]
     \* a push has written past the last item: the scan is left there, the
     \* index showing the fault
     ELSE IF top \notin DOMAIN h0.items THEN [more |-> FALSE, ctx |-> ctx]
     ELSE Region(IF h0.index < 0
                   THEN [h0 EXCEPT !.width = Abs(item.ax + item.ay),
                                   !.height = Abs(item.bx + item.by),
                                   !.dax = SQZ_sign(item.ax), !.day = SQZ_sign(item.ay),
                                   !.dbx = SQZ_sign(item.bx), !.dby = SQZ_sign(item.by),
                                   !.index = 0]
                   ELSE h0)

\* the same with a stack of 16 items
HilbertInitShortStack(ctx, width, height) ==
  LET h0 == [kind |-> "hilbert",
             items |-> Array([i \in 0..15 |-> HilbertItem(0, 0, 0, 0, 0, 0)]),
             sindex |-> 0, width |-> 0, height |-> 0,
             dax |-> 0, day |-> 0, dbx |-> 0, dby |-> 0, index |-> 0]
      h1 == IF width >= height
              THEN SQZ_scan_hilbert_stack_push(h0, 0, 0, width, 0, 0, height)
              ELSE SQZ_scan_hilbert_stack_push(h0, 0, 0, 0, height, width, 0)
      h2 == [h1 EXCEPT !.index = -1]
  IN SQZ_scan_hilbert([ctx EXCEPT !.type = SQZ_SCAN_ORDER_HILBERT, !.workspace = h2]).ctx
SQZ_scan_init_hilbert_context(ctx, width, height) ==
  LET h0 == [kind |-> "hilbert",
             items |-> Array([i \in 0..31 |-> HilbertItem(0, 0, 0, 0, 0, 0)]),
             sindex |-> 0, width |-> 0, height |-> 0,
             dax |-> 0, day |-> 0, dbx |-> 0, dby |-> 0, index |-> 0]
      h1 == IF width >= height
              THEN SQZ_scan_hilbert_stack_push(h0, 0, 0, width, 0, 0, height)
              ELSE SQZ_scan_hilbert_stack_push(h0, 0, 0, 0, height, width, 0)
      h2 == [h1 EXCEPT !.index = -1]
  IN SQZ_scan_hilbert([ctx EXCEPT !.type = SQZ_SCAN_ORDER_HILBERT, !.workspace = h2]).ctx

\* the scan function installed by the init (ctx->scan)
ScanStep(ctx) ==
  CASE ctx.type = SQZ_SCAN_ORDER_RASTER -> SQZ_scan_raster(ctx)
    [] ctx.type = SQZ_SCAN_ORDER_SNAKE -> SQZ_scan_snake(ctx)
    [] ctx.type = SQZ_SCAN_ORDER_MORTON -> SQZ_scan_morton(ctx)
    [] ctx.type = SQZ_SCAN_ORDER_HILBERT -> SQZ_scan_hilbert(ctx)

SQZ_scan_init(ctx, width, height) ==
  CASE ctx.type = SQZ_SCAN_ORDER_RASTER -> SQZ_scan_init_raster_context(ctx, width, height)
    [] ctx.type = SQZ_SCAN_ORDER_SNAKE ->
         SQZ_scan_init_snake_context(ctx, width, height,
           SQZ_SCAN_SNAKE_DEFAULT_TILE_WIDTH, SQZ_SCAN_SNAKE_DEFAULT_TILE_HEIGHT)
    [] ctx.type = SQZ_SCAN_ORDER_MORTON -> SQZ_scan_init_morton_context(ctx, width, height)
    [] ctx.type = SQZ_SCAN_ORDER_HILBERT -> SQZ_scan_init_hilbert_context(ctx, width, height)

\* the do { SQZ_list_add(LIP, x, y) } while (scan(ctx)) of SQZ_common_init_subband
FillLIPDone(s) == ~s.more
FillLIPStep(s) ==
  LET Added(st) ==
        [band |-> SQZ_list_add(s.band, "LIP", s.scan.x, s.scan.y), scan |-> st.ctx,
         more |-> st.more]
  IN Added(ScanStep(s.scan))
FillLIP(band, scan_ctx) ==
  Iterate(FillLIPDone, FillLIPStep, [band |-> band, scan |-> scan_ctx, more |-> TRUE],
          band.cache.capacity + 1)

\* returns [band, scan] (the node cache allocation succeeded)
SQZ_common_init_subband(band, scan_ctx) ==
  FillLIP([band EXCEPT !.cache = SQZ_node_cache_init(band.width * band.height),
                       !.LIP = EmptyList, !.LSP = EmptyList, !.NSP = EmptyList],
          scan_ctx)

\* the positions a scan order visits over width x height, in order
ScanPositions(type, width, height) ==
  LET b0 == [cache |-> SQZ_node_cache_init(0), LIP |-> EmptyList, LSP |-> EmptyList,
             NSP |-> EmptyList, width |-> width, height |-> height]
      b1 == SQZ_common_init_subband(b0, SQZ_scan_init(NewScanContext(type), width, height)).band
  IN ListSeq(b1, "LIP")

(***************************************************************************)
(* Colour transforms (grayscale and YCoCg-R); pixels are bytes, coefficients *)
(* are int16_t held in one array of width * height * num_planes entries     *)
(***************************************************************************)
SQZ_COLOR_CLIP(v) == IF v < 0 THEN 0 ELSE IF v > 255 THEN 255 ELSE v

\* read # 0: pixels -> ctx->data; returns the new data array
GrayscaleRead(image, data, ptr) ==
  LET length == image.width * image.height
  IN Array([i \in DOMAIN data |->
        IF i < length THEN ToS16(ptr[i] - SQZ_COLOR_8BPC_LEVEL_OFFSET) ELSE data[i]])

\* the same with the level offset left out
GrayscaleWriteNoOffset(image, data, ptr) ==
  LET length == image.width * image.height
  IN Array([i \in DOMAIN ptr |->
        IF i < length THEN SQZ_COLOR_CLIP(ToS16(data[i])) ELSE ptr[i]])
\* read = 0: ctx->data -> pixels; returns the new pixel buffer
GrayscaleWrite(image, data, ptr) ==
  LET length == image.width * image.height
  IN Array([i \in DOMAIN ptr |->
        IF i < length THEN SQZ_COLOR_CLIP(ToS16(data[i] + SQZ_COLOR_8BPC_LEVEL_OFFSET))
        ELSE ptr[i]])

\* the same with (R + B) / 2 rounded up
YCoCgReadAtRounded(ptr, i, plane) ==
  LET R == ptr[3 * i]
      G == ptr[3 * i + 1]
      B == ptr[3 * i + 2]
      t == Shr(R + B + 1, 1)
  IN CASE plane = 0 -> ToS16(Shr(t + G, 1) - SQZ_COLOR_8BPC_LEVEL_OFFSET)
       [] plane = 1 -> R - B
       [] plane = 2 -> G - t

YCoCgReadAt(ptr, i, plane) ==
  LET R == ptr[3 * i]
      G == ptr[3 * i + 1]
      B == ptr[3 * i + 2]
      t == Shr(R + B, 1)
  IN CASE plane = 0 -> ToS16(Shr(t + G, 1) - SQZ_COLOR_8BPC_LEVEL_OFFSET)
       [] plane = 1 -> R - B
       [] plane = 2 -> G - t

YCoCgRead(image, data, ptr) ==
  LET length == image.width * image.height
  IN Array([i \in DOMAIN data |->
        IF i < 3 * length THEN YCoCgReadAt(ptr, i % length, i \div length) ELSE data[i]])

\* R, G or B of pixel i as computed from Y, Co and Cg, before SQZ_COLOR_CLIP
YCoCgInverseAt(data, length, i, channel) ==
  LET Y_ == ToS16(data[i] + SQZ_COLOR_8BPC_LEVEL_OFFSET)
      Co_ == data[length + i]
      Cg_ == data[2 * length + i]
      B == ToS16(Y_ + Shr(1 - Cg_, 1) - Shr(Co_, 1))
      G == ToS16(Y_ - Shr(-Cg_, 1))
      R == ToS16(Co_ + B)
  IN CASE channel = 0 -> R
       [] channel = 1 -> G
       [] channel = 2 -> B

YCoCgWriteAt(data, length, i, channel) ==
  SQZ_COLOR_CLIP(YCoCgInverseAt(data, length, i, channel))

YCoCgWrite(image, data, ptr) ==
  LET length == image.width * image.height
  IN Array([i \in DOMAIN ptr |->
        IF i < 3 * length THEN YCoCgWriteAt(data, length, i \div 3, i % 3) ELSE ptr[i]])

\* read # 0: returns the new ctx->data; the Oklab and logl1 modes are not modelled
SQZ_color_process_read(image, data, buffer) ==
  CASE image.color_mode = SQZ_COLOR_MODE_GRAYSCALE -> GrayscaleRead(image, data, buffer)
    [] image.color_mode = SQZ_COLOR_MODE_YCOCG_R -> YCoCgRead(image, data, buffer)

\* read = 0: returns the new pixel buffer
SQZ_color_process_write(image, data, buffer) ==
  CASE image.color_mode = SQZ_COLOR_MODE_GRAYSCALE -> GrayscaleWrite(image, data, buffer)
    [] image.color_mode = SQZ_COLOR_MODE_YCOCG_R -> YCoCgWrite(image, data, buffer)

(***************************************************************************)
(* Sign-magnitude remapping                                                *)
(***************************************************************************)
SQZ_dwt_convert_to_sign_magnitude(image, data) ==
  LET size == image.width * image.height * image.num_planes
  IN Array([i \in DOMAIN data |->
        IF i < size
          THEN ToS16(IF data[i] < 0 THEN BitOr(-2 * data[i], 1) ELSE 2 * data[i])
          ELSE data[i]])

SQZ_dwt_convert_from_sign_magnitude(image, data) ==
  LET size == image.width * image.height * image.num_planes
  IN Array([i \in DOMAIN data |->
        IF i < size
          THEN ToS16(IF data[i] % 2 = 1 THEN -Shr(data[i], 1) ELSE Shr(data[i], 1))
          ELSE data[i]])

(***************************************************************************)
(* Integer 5/3 wavelet transform                                           *)
(***************************************************************************)
RECURSIVE SQZ_mirror(_, _)
SQZ_mirror(value, maximum) ==
  IF maximum = 0 THEN 0
  ELSE IF UGt(value, maximum)
    THEN LET v1 == -value
         IN SQZ_mirror(IF v1 < 0 THEN v1 + 2 * maximum ELSE v1, maximum)
  ELSE value

\* the scratch row after the copy loop: evens at 0.., odds at stride..
DwtSplit(data, base, width) ==
  LET half_w == width \div 2
      stride == half_w + (width % 2)
  IN Array([k \in 0..(width - 1) |->
        IF k < stride THEN data[base + 2 * k] ELSE data[base + 2 * (k - stride) + 1]])

\* one turn of for (i = 1u; i < w; ++i) { ...; ++i; ... } of the forward pass
DwtHDone(s) == s.i >= s.w
DwtHStep(s) ==
  LET evens(k) == s.scratch[k]
      odds(k) == s.scratch[s.stride + k]
      i == s.i
      cf0a == evens(i + 1)
      cf3 == odds(i) + Shr(-(s.cf2 + cf0a), 1)
      cf2a == s.cf2 + Shr(s.cf1 + cf3 + 2, 2)
      j == i + 1
      cf2b == evens(j + 1)
      cf1 == odds(j) + Shr(-(cf2b + cf0a), 1)
      cf0 == cf0a + Shr(cf1 + cf3 + 2, 2)
  IN [s EXCEPT !.data = [@ EXCEPT ![s.base + s.stride + i] = ToS16(cf3),
                                  ![s.base + i] = ToS16(cf2a),
                                  ![s.base + s.stride + j] = ToS16(cf1),
                                  ![s.base + j] = ToS16(cf0)],
               !.cf0 = cf0, !.cf1 = cf1, !.cf2 = cf2b, !.cf3 = cf3, !.i = j + 1]

\* returns the data array with the row at `base` transformed in place
SQZ_dwt_5_3i_horizontal_pass(data, base, width) ==
  IF width < SQZ_MIN_DIMENSION \div 2 THEN data
  ELSE
    LET half_w == width \div 2
        odd_w == width % 2
        stride == half_w + odd_w
        w == half_w - 1
        \* the pass reading the evens and odds from the scratch row
        Pass(scratch) ==
          LET evens(k) == scratch[k]
              odds(k) == scratch[stride + k]
              cf0 == evens(0)
              cf2 == evens(1)
              cf1 == odds(0) + Shr(-(cf0 + cf2), 1)
              cf0a == cf0 + Shr(cf1 + 1, 1)
              cf3 == odds(w) + (IF odd_w = 1 THEN Shr(-(evens(w) + evens(w + 1)), 1)
                                ELSE -evens(w))
              \* the stores after the loop; d1 has the last high-pass coefficient
              AfterLoop(d1) ==
                LET d2 == [d1 EXCEPT ![base + w] =
                             ToS16(evens(w) + Shr(d1[base + stride + w - 1] + cf3 + 2, 2))]
                IN IF odd_w = 1
                     THEN [d2 EXCEPT ![base + w + 1] = ToS16(evens(w + 1) + Shr(cf3 + 1, 1))]
                     ELSE d2
          IN AfterLoop([Iterate(DwtHDone, DwtHStep,
                           [data |-> [data EXCEPT ![base + stride] = ToS16(cf1),
                                                  ![base] = ToS16(cf0a)],
                            scratch |-> scratch, base |-> base, stride |-> stride,
                            w |-> w, cf0 |-> cf0a, cf1 |-> cf1, cf2 |-> cf2, cf3 |-> 0,
                            i |-> 1],
                           half_w).data
                    EXCEPT ![base + stride + w] = ToS16(cf3)])
    IN Pass(DwtSplit(data, base, width))

\* ---------------------------------------------------------------------------
\* Properties of one forward level of the 5/3 transform
\* ---------------------------------------------------------------------------

\* the vertical pass mutated to round as the horizontal pass does
RowPredictNegated(data, n, nn, r, width) ==
  Array([j \in DOMAIN data |->
     IF j >= n /\ j < n + width
       THEN ToS16(data[j] + Shr(-(data[nn + (j - n)] + data[r + (j - n)]), 1))
       ELSE data[j]])
\* for k < width: n[k] -= (nn[k] + r[k]) >> 1 on the rows at offsets n, nn, r
RowPredict(data, n, nn, r, width) ==
  Array([j \in DOMAIN data |->
     IF j >= n /\ j < n + width
       THEN ToS16(data[j] - Shr(data[nn + (j - n)] + data[r + (j - n)], 1))
       ELSE data[j]])

\* for k < width: nn[k] += (nnn[k] + n[k] + 2) >> 2
RowUpdate(data, nn, nnn, n, width) ==
  Array([j \in DOMAIN data |->
     IF j >= nn /\ j < nn + width
       THEN ToS16(data[j] + Shr(data[nnn + (j - nn)] + data[n + (j - nn)] + 2, 2))
       ELSE data[j]])

\* one turn of for (i = -2; i < height; i += 2); rows are held as row numbers,
\* the pointer of row k being data + k * stride
DwtVDone(s) == s.i >= s.height
DwtVStep(s) ==
  LET n == SQZ_mirror(s.i + 1, s.height - 1)
      r == SQZ_mirror(s.i + 2, s.height - 1)
      row(k) == s.base + k * s.stride
      Horizontal(data, wanted, k) ==
        IF wanted THEN SQZ_dwt_5_3i_horizontal_pass(data, row(k), s.width) ELSE data
      Predict(data) ==
        IF s.nn <= r THEN RowPredict(data, row(n), row(s.nn), row(r), s.width) ELSE data
      Update(data) ==
        IF s.nnn <= n THEN RowUpdate(data, row(s.nn), row(s.nnn), row(n), s.width) ELSE data
  IN [s EXCEPT !.data = Update(Predict(Horizontal(Horizontal(@, s.nn <= r, n),
                                                  s.i + 2 < s.height, r))),
               !.nnn = n, !.nn = r, !.i = @ + 2]

\* returns the data array; base is the offset of the plane
SQZ_dwt_5_3i(data, base, width, height, stride) ==
  Iterate(DwtVDone, DwtVStep,
          [data |-> data, base |-> base, width |-> width, height |-> height,
           stride |-> stride, nnn |-> SQZ_mirror(-3, height - 1),
           nn |-> SQZ_mirror(-2, height - 1), i |-> -2],
          height + 2).data

\* one turn of the level loop of SQZ_dwt; the last level of a plane moves the
\* plane loop on
DwtDone(s) == s.plane >= s.image.num_planes
DwtStep(s) ==
  LET image == s.image
      more == s.level + 1 < image.dwt_levels
  IN [s EXCEPT !.data = SQZ_dwt_5_3i(@, s.plane * image.width * image.height,
                                     s.width, s.height, image.width * Pow2(s.level)),
               !.plane = IF more THEN @ ELSE @ + 1,
               !.level = IF more THEN @ + 1 ELSE 0,
               !.width = IF more THEN (@ + 1) \div 2 ELSE image.width,
               !.height = IF more THEN (@ + 1) \div 2 ELSE image.height]

\* returns the transformed data array (the scratch allocation succeeded)
SQZ_dwt(image, data) ==
  Iterate(DwtDone, DwtStep,
          [image |-> image, data |-> data, plane |-> 0, level |-> 0,
           width |-> image.width, height |-> image.height],
          image.num_planes * image.dwt_levels).data

\* one turn of for (i = 1u; i < w; ++i) { ...; ++i; ... } of the inverse pass;
\* evens are scratch[0..], odds are scratch[stride..]
IdwtHDone(s) == s.i >= s.w
IdwtHStep(s) ==
  LET l_band(k) == s.data[s.base + k]
      h_band(k) == s.data[s.base + s.stride + k]
      i == s.i
      cf3 == h_band(i)
      cf2 == l_band(i) - Shr(s.cf1 + cf3 + 2, 2)
      j == i + 1
      cf1 == h_band(j)
      cf0 == l_band(j) - Shr(cf1 + cf3 + 2, 2)
  IN [s EXCEPT !.scratch = [@ EXCEPT ![i] = ToS16(cf2),
                                     ![s.stride + i - 1] = ToS16(s.cf1 - Shr(-(s.cf0 + cf2), 1)),
                                     ![j] = ToS16(cf0),
                                     ![s.stride + j - 1] = ToS16(cf3 - Shr(-(cf0 + cf2), 1))],
               !.cf0 = cf0, !.cf1 = cf1, !.cf2 = cf2, !.cf3 = cf3, !.i = j + 1]

\* the row with evens and odds interleaved again
IdwtMerge(data, scratch, base, width) ==
  LET half_w == width \div 2
      stride == half_w + (width % 2)
  IN Array([j \in DOMAIN data |->
        IF j >= base /\ j < base + width
          THEN LET k == j - base
               IN IF k % 2 = 0 THEN scratch[k \div 2] ELSE scratch[stride + (k \div 2)]
          ELSE data[j]])

\* returns the data array with the row at `base` transformed in place
SQZ_idwt_5_3i_horizontal_pass(data, base, width) ==
  IF width < SQZ_MIN_DIMENSION \div 2 THEN data
  ELSE
    LET half_w == width \div 2
        odd_w == width % 2
        stride == half_w + odd_w
        w == half_w - 1
        l_band(k) == data[base + k]
        h_band(k) == data[base + stride + k]
        cf1 == h_band(0)
        cf0 == l_band(0) - Shr(cf1 + 1, 1)
        \* the stores after the loop, in their order, each on the scratch row
        \* the one before it left
        LastOdd(sc1) ==
          [sc1 EXCEPT ![stride + w - 1] =
             ToS16(h_band(w - 1) - Shr(-(sc1[w - 1] + sc1[w]), 1))]
        OddWidth(sc2) ==
          IF odd_w = 1
            THEN [sc2 EXCEPT ![w + 1] = ToS16(l_band(w + 1) - Shr(h_band(w) + 1, 1))]
            ELSE sc2
        Last(sc3) ==
          [sc3 EXCEPT ![stride + w] =
             ToS16(h_band(w) - (IF odd_w = 1 THEN Shr(-(sc3[w] + sc3[w + 1]), 1)
                                             ELSE -sc3[w]))]
    IN IdwtMerge(data,
         Last(OddWidth(LastOdd(
           [Iterate(IdwtHDone, IdwtHStep,
                    [data |-> data,
                     scratch |-> [Array([k \in 0..(width - 1) |-> 0]) EXCEPT ![0] = ToS16(cf0)],
                     base |-> base, stride |-> stride,
                     w |-> w, cf0 |-> cf0, cf1 |-> cf1, cf2 |-> 0, cf3 |-> 0, i |-> 1],
                    half_w).scratch
            EXCEPT ![w] = ToS16(l_band(w) - Shr(h_band(w - 1) + h_band(w) + 2, 2))]))),
         base, width)

\* the same without the rounding term
RowUnupdateNoRounding(data, r, n, s, width) ==
  Array([j \in DOMAIN data |->
     IF j >= r /\ j < r + width
       THEN ToS16(data[j] - Shr(data[n + (j - r)] + data[s + (j - r)], 2))
       ELSE data[j]])
\* for k < width: r[k] -= (n[k] + s[k] + 2) >> 2
RowUnupdate(data, r, n, s, width) ==
  Array([j \in DOMAIN data |->
     IF j >= r /\ j < r + width
       THEN ToS16(data[j] - Shr(data[n + (j - r)] + data[s + (j - r)] + 2, 2))
       ELSE data[j]])

\* for k < width: n[k] += (nn[k] + r[k]) >> 1
RowUnpredict(data, n, nn, r, width) ==
  Array([j \in DOMAIN data |->
     IF j >= n /\ j < n + width
       THEN ToS16(data[j] + Shr(data[nn + (j - n)] + data[r + (j - n)], 1))
       ELSE data[j]])

\* one turn of for (i = -1; i <= height; i += 2)
IdwtVDone(st) == st.i > st.height
IdwtVStep(st) ==
  LET r == SQZ_mirror(st.i + 1, st.height - 1)
      s == SQZ_mirror(st.i + 2, st.height - 1)
      row(k) == st.base + k * st.stride
      Unupdate(data) ==
        IF st.n <= s THEN RowUnupdate(data, row(r), row(st.n), row(s), st.width) ELSE data
      Unpredict(data) ==
        IF st.nn <= r THEN RowUnpredict(data, row(st.n), row(st.nn), row(r), st.width)
        ELSE data
      Horizontal(data, wanted, k) ==
        IF wanted THEN SQZ_idwt_5_3i_horizontal_pass(data, row(k), st.width) ELSE data
  IN [st EXCEPT !.data = Horizontal(Horizontal(Unpredict(Unupdate(@)), st.i - 1 >= 0, st.nn),
                                    st.nn <= r, st.n),
                !.nn = r, !.n = s, !.i = @ + 2]

SQZ_idwt_5_3i(data, base, width, height, stride) ==
  Iterate(IdwtVDone, IdwtVStep,
          [data |-> data, base |-> base, width |-> width, height |-> height,
           stride |-> stride, nn |-> SQZ_mirror(-2, height - 1),
           n |-> SQZ_mirror(-1, height - 1), i |-> -1],
          height + 3).data

\* for (l = level; l > 0; --l) size = (size + 1) >> 1
RECURSIVE LevelSize(_, _)
LevelSize(size, l) == IF l > 0 THEN LevelSize((size + 1) \div 2, l - 1) ELSE size

\* one turn of the level loop of SQZ_idwt; the last level of a plane moves the
\* plane loop on
IdwtDone(s) == s.plane >= s.image.num_planes
IdwtStep(s) ==
  LET image == s.image
      more == s.level - 1 >= 0
  IN [s EXCEPT !.data = SQZ_idwt_5_3i(@, s.plane * image.width * image.height,
                                      LevelSize(image.width, s.level),
                                      LevelSize(image.height, s.level),
                                      image.width * Pow2(s.level)),
               !.plane = IF more THEN @ ELSE @ + 1,
               !.level = IF more THEN @ - 1 ELSE image.dwt_levels - 1]

\* returns the reconstructed data array (the scratch allocation succeeded)
SQZ_idwt(image, data) ==
  Iterate(IdwtDone, IdwtStep,
          [image |-> image, data |-> data, plane |-> 0, level |-> image.dwt_levels - 1],
          image.num_planes * image.dwt_levels).data

(***************************************************************************)
(* Codec context: ctx = [image, data, buffer, band], band a function from  *)
(* <<plane, level, orientation>> to the subband record.  band.data is the  *)
(* offset of the subband's first coefficient in ctx.data.                  *)
(***************************************************************************)
\* rows of SQZ_schedule, indexed by level + 1 and orientation + 1
ScheduleLuma ==
  << <<0, 1, 1, 2>>, <<0, 2, 2, 3>>, <<0, 3, 3, 4>>, <<0, 4, 4, 5>>,
     <<0, 5, 5, 6>>, <<0, 6, 6, 7>>, <<0, 7, 7, 8>>, <<0, 8, 8, 9>> >>
ScheduleChroma ==
  << <<1, 2, 2, 3>>, <<0, 3, 3, 4>>, <<0, 4, 4, 5>>, <<0, 5, 5, 6>>,
     <<0, 6, 6, 7>>, <<0, 7, 7, 8>>, <<0, 8, 8, 9>>, <<0, 9, 9, 10>> >>

\* SQZ_schedule[color_mode][plane][level][orientation]
SQZ_schedule(color_mode, plane, level, orientation) ==
  IF plane = 0 THEN ScheduleLuma[level + 1][orientation + 1]
  ELSE IF color_mode = SQZ_COLOR_MODE_GRAYSCALE THEN 0
  ELSE ScheduleChroma[level + 1][orientation + 1]

\* the subbands SQZ_common_init_context sets up
BandKeys(image) ==
  {k \in (0..(image.num_planes - 1)) \X (0..(image.dwt_levels - 1)) \X (0..(SQZ_DWT_SUBBANDS - 1)) :
     k[3] >= (IF k[2] > 0 THEN 1 ELSE 0)}

\* the same with every dimension of a subband rounded down
InitBandRoundedDown(image, plane, level, orientation) ==
  LET w == LevelSize(image.width, image.dwt_levels - 1 - level)
      h == LevelSize(image.height, image.dwt_levels - 1 - level)
      stride == image.width * Pow2(image.dwt_levels - level)
  IN [cache |-> SQZ_node_cache_init(0),
      LIP |-> EmptyList, LSP |-> EmptyList, NSP |-> EmptyList,
      data |-> plane * image.width * image.height
               + (IF orientation % 2 = 1 THEN (w + 1) \div 2 ELSE 0)
               + (IF orientation > 1 THEN stride \div 2 ELSE 0),
      width |-> w \div 2,
      height |-> h \div 2,
      stride |-> stride,
      max_bitplane |-> 0,
      bitplane |-> 0,
      round |-> SQZ_schedule(image.color_mode, plane, level, orientation)
                + BitAnd(image.subsampling % 65536, IF plane > 0 THEN 1 ELSE 0)]
\* the body of the orientation loop of SQZ_common_init_context; w, h are the
\* plane's size at this level
InitBand(image, plane, level, orientation) ==
  LET w == LevelSize(image.width, image.dwt_levels - 1 - level)
      h == LevelSize(image.height, image.dwt_levels - 1 - level)
      stride == image.width * Pow2(image.dwt_levels - level)
  IN [cache |-> SQZ_node_cache_init(0),
      LIP |-> EmptyList, LSP |-> EmptyList, NSP |-> EmptyList,
      data |-> plane * image.width * image.height
               + (IF orientation % 2 = 1 THEN (w + 1) \div 2 ELSE 0)
               + (IF orientation > 1 THEN stride \div 2 ELSE 0),
      width |-> (w + (IF orientation % 2 = 1 THEN 0 ELSE 1)) \div 2,
      height |-> (h + (IF orientation > 1 THEN 0 ELSE 1)) \div 2,
      stride |-> stride,
      max_bitplane |-> 0,
      bitplane |-> 0,
      round |-> SQZ_schedule(image.color_mode, plane, level, orientation)
                + BitAnd(image.subsampling % 65536, IF plane > 0 THEN 1 ELSE 0)]

\* returns the context with ctx->data allocated (zeroed) and the subbands laid out
SQZ_common_init_context(ctx) ==
  [ctx EXCEPT
     !.data = Array([i \in 0..(ctx.image.width * ctx.image.height * ctx.image.num_planes - 1) |-> 0]),
     !.band = [k \in BandKeys(ctx.image) |-> InitBand(ctx.image, k[1], k[2], k[3])]]

\* the coefficient of a subband at (x, y)
BandIndex(band, x, y) == band.data + y * band.stride + x

\* SQZ_dwt_get_max returning the first coefficient of the subband
DwtGetMaxFirst(band, data) == data[band.data]
SQZ_dwt_get_max(band, data) ==
  LET values == {data[BandIndex(band, x, y)] :
                   x \in 0..(band.width - 1), y \in 0..(band.height - 1)}
                \cup {data[band.data]}
  IN CHOOSE max \in values : \A v \in values : v <= max

\* returns [band, scan, buffer]
SQZ_encode_init_subband(band, scan_ctx, buffer, data) ==
  LET \* c is what SQZ_common_init_subband returned
      Started(c, max_bitplane) ==
        [band |-> [c.band EXCEPT !.max_bitplane = max_bitplane, !.bitplane = max_bitplane],
         scan |-> c.scan,
         buffer |-> SQZ_bit_buffer_write_bits(buffer, max_bitplane, 4).buf]
      Measured(c) == Started(c, SQZ_ilog2(Shr(SQZ_dwt_get_max(c.band, data), 1)))
  IN Measured(SQZ_common_init_subband(band, scan_ctx))

\* returns [band, scan, buffer]
SQZ_decode_init_subband(band, scan_ctx, buffer) ==
  LET \* c is what SQZ_common_init_subband returned, r the read of max_bitplane
      Started(c, r) ==
        [band |-> [c.band EXCEPT !.max_bitplane = r.bits, !.bitplane = r.bits],
         scan |-> c.scan,
         buffer |-> r.buf]
  IN Started(SQZ_common_init_subband(band, scan_ctx), SQZ_bit_buffer_read_bits(buffer, 4))

(***************************************************************************)
(* Wavelet difference reduction: run lengths, sorting and refinement passes *)
(***************************************************************************)
\* a + b on uint32_t operands (wraps at 2^32)
Add32(a, b) ==
  LET lo == (a % 65536) + (b % 65536)
      hi == (a \div 65536) + (b \div 65536) + (lo \div 65536)
  IN ToS16(hi) * 65536 + (lo % 65536)

\* (SQZ_dwt_coefficient_t)(1u << bitplane); a negative shift count is undefined
\* and yields 0 here: the mask is then never applied, the lists being empty
BitplaneMask(bitplane) == IF bitplane \in 0..15 THEN ToS16(Pow2(bitplane)) ELSE 0

\* returns [ok, buf]
SQZ_encode_write_wdr_run(buffer, run) ==
  LET cost == SQZ_ilog2(run) - 1
      \* w1 is the write of the high half of a run longer than 16 bits
      LowHalf(w1) ==
        IF w1.ok THEN SQZ_bit_buffer_write_bits(w1.buf, SQZ_interleave_u16_to_u32(run), 32)
        ELSE w1
  IN IF cost >= 0 /\ cost <= 16
       THEN SQZ_bit_buffer_write_bits(buffer, SQZ_interleave_u16_to_u32(run), cost * 2)
       ELSE LowHalf(SQZ_bit_buffer_write_bits(buffer, SQZ_interleave_u16_to_u32(Shr(run, 16)),
                                              (cost - 16) * 2))

\* one turn of while (SQZ_bit_buffer_read_bit(buffer) == 0) { ... }
WdrReadDone(s) == s.stop
WdrReadStep(s) ==
  LET \* r2 is the read of the run's next bit
      RunBit(r2) ==
        IF r2.bit < 0
          THEN [s EXCEPT !.buf = r2.buf, !.stop = TRUE, !.ok = FALSE]
          ELSE [s EXCEPT !.buf = r2.buf, !.run = Add32(@, Add32(@, r2.bit))]
      \* r1 is the read of the while condition
      Marker(r1) ==
        IF r1.bit # 0 THEN [s EXCEPT !.buf = r1.buf, !.stop = TRUE]
        ELSE RunBit(SQZ_bit_buffer_read_bit(r1.buf))
  IN Marker(SQZ_bit_buffer_read_bit(s.buf))

\* the same with the run started at 0
WdrReadFromZero(buffer) ==
  LET Return(s) == [ok |-> s.ok, run |-> s.run, buf |-> s.buf]
  IN Return(Iterate(WdrReadDone, WdrReadStep,
                    [buf |-> buffer, run |-> 0, ok |-> TRUE, stop |-> FALSE],
                    (buffer.eob - buffer.ptr) * 4 + 1))

\* returns [ok, run, buf]
SQZ_decode_read_wdr_run(buffer) ==
  LET Return(s) == [ok |-> s.ok, run |-> s.run, buf |-> s.buf]
  IN Return(Iterate(WdrReadDone, WdrReadStep,
                    [buf |-> buffer, run |-> 1, ok |-> TRUE, stop |-> FALSE],
                    (buffer.eob - buffer.ptr) * 4 + 1))

\* one turn of while (pixel != NULL) of the encoder's sorting pass
EncodeSortDone(s) == s.pixel = NULL \/ s.brk
\* SQZ_encode_sorting_pass writing the run of a hit before its sign
EncodeSortRunFirst(s) ==
  LET node == s.band.cache.nodes[s.pixel]
      v == s.data[BandIndex(s.band, node.x, node.y)]
      Exchanged(w2, e) ==
        [s EXCEPT !.buf = w2.buf, !.last = s.i, !.band = e.band,
                  !.pixel = e.next, !.i = Add32(@, 1)]
      SignWritten(w2) ==
        IF ~w2.ok THEN [s EXCEPT !.buf = w2.buf, !.brk = TRUE]
        ELSE Exchanged(w2, SQZ_list_exchange(s.band, "LIP", "NSP", s.pixel, s.previous))
      RunWritten(w1) ==
        IF ~w1.ok THEN [s EXCEPT !.buf = w1.buf, !.brk = TRUE]
        ELSE SignWritten(SQZ_bit_buffer_write_bits(w1.buf, 2 + (v % 2), 1 + Bool01(s.last)))
  IN IF And16(v, s.mask) # 0
       THEN RunWritten(SQZ_encode_write_wdr_run(s.buf, Add32(s.i, -s.last)))
       ELSE [s EXCEPT !.previous = s.pixel,
                      !.pixel = SQZ_list_node_next(s.band, s.pixel),
                      !.i = Add32(@, 1)]
EncodeSortStep(s) ==
  LET node == s.band.cache.nodes[s.pixel]
      v == s.data[BandIndex(s.band, node.x, node.y)]
      \* e is what SQZ_list_exchange returned
      Exchanged(w2, e) ==
        [s EXCEPT !.buf = w2.buf, !.last = s.i, !.band = e.band,
                  !.pixel = e.next, !.i = Add32(@, 1)]
      \* w2 is the write of the run
      RunWritten(w2) ==
        IF ~w2.ok THEN [s EXCEPT !.buf = w2.buf, !.brk = TRUE]
        ELSE Exchanged(w2, SQZ_list_exchange(s.band, "LIP", "NSP", s.pixel, s.previous))
      \* w1 is the write of the sign
      SignWritten(w1) ==
        IF ~w1.ok THEN [s EXCEPT !.buf = w1.buf, !.brk = TRUE]
        ELSE RunWritten(SQZ_encode_write_wdr_run(w1.buf, Add32(s.i, -s.last)))
  IN IF And16(v, s.mask) # 0
       THEN SignWritten(SQZ_bit_buffer_write_bits(s.buf, 2 + (v % 2), 1 + Bool01(s.last)))
       ELSE [s EXCEPT !.previous = s.pixel,
                      !.pixel = SQZ_list_node_next(s.band, s.pixel),
                      !.i = Add32(@, 1)]

\* returns [ok, band, buffer]
SQZ_encode_sorting_pass(band, buffer, data) ==
  LET \* w3 is the last write of the end marker
      Return(s, w3) == [band |-> s.band, buffer |-> w3.buf, ok |-> ~SQZ_bit_buffer_eob(w3.buf)]
      \* the end marker, s being the state the loop ended in
      EndMarker(s) ==
        Return(s,
          SQZ_bit_buffer_write_bit(
            SQZ_encode_write_wdr_run(
              SQZ_bit_buffer_write_bits(s.buf, 3,
                                        1 + (IF s.band.NSP.length > 0 THEN 1 ELSE 0)).buf,
              Add32(s.i, -s.last)).buf,
            1))
  IN IF band.LIP.length = 0 \/ band.bitplane <= 0
       THEN [ok |-> TRUE, band |-> band, buffer |-> buffer]
       ELSE EndMarker(Iterate(EncodeSortDone, EncodeSortStep,
                              [band |-> band, buf |-> buffer, data |-> data,
                               mask |-> BitplaneMask(band.bitplane),
                               pixel |-> band.LIP.head, previous |-> NULL,
                               i |-> 1, last |-> 0, brk |-> FALSE], band.cache.capacity))

\* while ((--run > 0) && (pixel != NULL)) { previous = pixel; pixel = next; }
SkipDone(s) == s.stop
SkipStep(s) ==
  LET run == Add32(s.run, -1) IN
  IF run = 0 \/ s.pixel = NULL THEN [s EXCEPT !.run = run, !.stop = TRUE]
  ELSE [s EXCEPT !.run = run, !.previous = s.pixel,
                 !.pixel = SQZ_list_node_next(s.band, s.pixel)]

\* one turn of the do { ... } while (1) of the decoder's sorting pass
DecodeSortDone(s) == s.brk
DecodeSortStep(s) ==
  LET \* e is what SQZ_list_exchange returned for the pixel at offset `at`
      Exchanged(sign, rr, k, at, e) ==
        [s EXCEPT !.buf = rr.buf,
                  !.data[at] = Or16(@, Or16(s.mask, sign)),
                  !.band = e.band, !.pixel = e.next, !.previous = k.previous]
      Significant(sign, rr, k, node) ==
        Exchanged(sign, rr, k, BandIndex(s.band, node.x, node.y),
                  SQZ_list_exchange(s.band, "LIP", "NSP", k.pixel, k.previous))
      \* k is the state the skip loop ended in
      Skipped(sign, rr, k) ==
        IF k.pixel = NULL
          THEN [s EXCEPT !.buf = rr.buf, !.pixel = NULL, !.previous = k.previous, !.brk = TRUE]
          ELSE Significant(sign, rr, k, s.band.cache.nodes[k.pixel])
      \* r1 is the read of the sign, rr the read of the run
      RunRead(r1, rr) ==
        IF r1.bit < 0 THEN [s EXCEPT !.buf = r1.buf, !.brk = TRUE]
        ELSE IF ~rr.ok THEN [s EXCEPT !.buf = rr.buf, !.brk = TRUE]
        ELSE Skipped(r1.bit, rr,
                     Iterate(SkipDone, SkipStep,
                             [band |-> s.band, run |-> rr.run, pixel |-> s.pixel,
                              previous |-> s.previous, stop |-> FALSE],
                             s.band.cache.capacity + 1))
      SignRead(r1) == RunRead(r1, SQZ_decode_read_wdr_run(r1.buf))
  IN SignRead(SQZ_bit_buffer_read_bit(s.buf))

\* returns [ok, band, buffer, data]
SQZ_decode_sorting_pass(band, buffer, data) ==
  LET Return(s) ==
        [ok |-> ~SQZ_bit_buffer_eob(s.buf), band |-> s.band, buffer |-> s.buf,
         data |-> s.data]
  IN IF band.LIP.length = 0 \/ band.bitplane <= 0
       THEN [ok |-> TRUE, band |-> band, buffer |-> buffer, data |-> data]
       ELSE Return(Iterate(DecodeSortDone, DecodeSortStep,
                           [band |-> band, buf |-> buffer, data |-> data,
                            mask |-> BitplaneMask(band.bitplane),
                            pixel |-> band.LIP.head, previous |-> NULL, brk |-> FALSE],
                           band.cache.capacity + 1))

\* one turn of while (pixel != NULL) of the encoder's refinement pass
EncodeRefineDone(s) == s.pixel = NULL \/ s.brk
EncodeRefineStep(s) ==
  LET node == s.band.cache.nodes[s.pixel]
      v == s.data[BandIndex(s.band, node.x, node.y)]
      Written(w1) ==
        IF ~w1.ok THEN [s EXCEPT !.brk = TRUE]
        ELSE [s EXCEPT !.buf = w1.buf, !.pixel = SQZ_list_node_next(s.band, s.pixel)]
  IN Written(SQZ_bit_buffer_write_bit(s.buf, Bool01(And16(v, s.mask))))

\* returns [ok, buffer]
SQZ_encode_refinement_pass(band, buffer, data) ==
  LET Return(s) == [ok |-> ~SQZ_bit_buffer_eob(s.buf), buffer |-> s.buf]
  IN Return(Iterate(EncodeRefineDone, EncodeRefineStep,
                    [band |-> band, buf |-> buffer, data |-> data,
                     mask |-> BitplaneMask(band.bitplane),
                     pixel |-> band.LSP.head, brk |-> FALSE], band.cache.capacity))

\* one turn of while (pixel != NULL) of the decoder's refinement pass
DecodeRefineDone(s) == s.pixel = NULL \/ s.brk
DecodeRefineStep(s) ==
  LET node == s.band.cache.nodes[s.pixel]
      at == BandIndex(s.band, node.x, node.y)
      BitRead(r) ==
        IF r.bit > 0
          THEN [s EXCEPT !.buf = r.buf, !.data[at] = Or16(@, s.mask),
                         !.pixel = SQZ_list_node_next(s.band, s.pixel)]
        ELSE IF r.bit < 0 THEN [s EXCEPT !.buf = r.buf, !.brk = TRUE]
        ELSE [s EXCEPT !.buf = r.buf, !.pixel = SQZ_list_node_next(s.band, s.pixel)]
  IN BitRead(SQZ_bit_buffer_read_bit(s.buf))

\* returns [ok, buffer, data]
SQZ_decode_refinement_pass(band, buffer, data) ==
  LET Return(s) == [ok |-> ~SQZ_bit_buffer_eob(s.buf), buffer |-> s.buf, data |-> s.data]
  IN Return(Iterate(DecodeRefineDone, DecodeRefineStep,
                    [band |-> band, buf |-> buffer, data |-> data,
                     mask |-> BitplaneMask(band.bitplane),
                     pixel |-> band.LSP.head, brk |-> FALSE], band.cache.capacity))

\* BitplaneEnd stepping the bitplane below 0
BitplaneEndBelowZero(band) ==
  [SQZ_list_merge(band, "NSP", "LSP") EXCEPT !.bitplane = @ - 1]
\* merge NSP into LSP and step the bitplane down
BitplaneEnd(band) ==
  [SQZ_list_merge(band, "NSP", "LSP") EXCEPT !.bitplane = @ - (IF @ > 0 THEN 1 ELSE 0)]

\* returns [ok, band, buffer]
SQZ_encode_bitplane(band, buffer, data) ==
  LET \* sp, rp are what the sorting and the refinement pass returned
      Refined(sp, rp) ==
        IF ~rp.ok THEN [ok |-> FALSE, band |-> sp.band, buffer |-> rp.buffer]
        ELSE [ok |-> ~SQZ_bit_buffer_eob(rp.buffer), band |-> BitplaneEnd(sp.band),
              buffer |-> rp.buffer]
      Sorted(sp) ==
        IF ~sp.ok THEN [ok |-> FALSE, band |-> sp.band, buffer |-> sp.buffer]
        ELSE Refined(sp, SQZ_encode_refinement_pass(sp.band, sp.buffer, data))
  IN Sorted(SQZ_encode_sorting_pass(band, buffer, data))

\* returns [ok, band, buffer, data]
SQZ_decode_bitplane(band, buffer, data) ==
  LET \* sp, rp are what the sorting and the refinement pass returned
      Refined(sp, rp) ==
        IF ~rp.ok
          THEN [ok |-> FALSE, band |-> sp.band, buffer |-> rp.buffer, data |-> rp.data]
          ELSE [ok |-> ~SQZ_bit_buffer_eob(rp.buffer), band |-> BitplaneEnd(sp.band),
                buffer |-> rp.buffer, data |-> rp.data]
      Sorted(sp) ==
        IF ~sp.ok THEN [ok |-> FALSE, band |-> sp.band, buffer |-> sp.buffer, data |-> sp.data]
        ELSE Refined(sp, SQZ_decode_refinement_pass(sp.band, sp.buffer, sp.data))
  IN Sorted(SQZ_decode_sorting_pass(band, buffer, data))

\* data[...] |= round_mask for every pixel of the band's LSP
RoundDone(s) == s.pixel = NULL
RoundStep(s) ==
  LET node == s.band.cache.nodes[s.pixel]
  IN [s EXCEPT !.data[BandIndex(s.band, node.x, node.y)] = Or16(@, s.mask),
               !.pixel = SQZ_list_node_next(s.band, s.pixel)]

\* RoundBand with a mask that covers bit 0 as well
RoundBandSignToo(band, data) ==
  IF band.max_bitplane = 0 \/ band.bitplane < 2 THEN data
  ELSE Iterate(RoundDone, RoundStep,
               [band |-> band, data |-> data,
                mask |-> ToS16((Pow2(band.bitplane) - 1) % 65536),
                pixel |-> band.LSP.head], band.cache.capacity).data
\* the body of the loops of SQZ_decode_round_coefficients for one subband
RoundBand(band, data) ==
  IF band.max_bitplane = 0 \/ band.bitplane < 2 THEN data
  ELSE Iterate(RoundDone, RoundStep,
               [band |-> band, data |-> data,
                mask |-> ToS16(BitXor((Pow2(band.bitplane) - 1) % 65536, 1)),
                pixel |-> band.LSP.head], band.cache.capacity).data

\* the subbands in the order of the plane, level and orientation loops
BandOrder(image) ==
  LET keys == BandKeys(image)
      rank(k) == (k[1] * SQZ_DWT_MAX_LEVEL + k[2]) * SQZ_DWT_SUBBANDS + k[3]
  IN Array([n \in 1..Cardinality(keys) |->
              CHOOSE k \in keys : Cardinality({j \in keys : rank(j) < rank(k)}) = n - 1])

\* one turn of the plane, level and orientation loops
RoundBandsDone(s) == s.n > Len(s.order)
RoundBandsStep(s) ==
  [s EXCEPT !.data = RoundBand(s.bands[s.order[s.n]], @), !.n = @ + 1]

\* returns the data array
SQZ_decode_round_coefficients(ctx) ==
  Iterate(RoundBandsDone, RoundBandsStep,
          [bands |-> ctx.band, order |-> BandOrder(ctx.image), n |-> 1, data |-> ctx.data],
          Cardinality(BandKeys(ctx.image))).data

(***************************************************************************)
(* Scheduler.  sched holds the locals of SQZ_schedule_task: state, plane,  *)
(* level, orientation, round, done and the scan context.  It also keeps a  *)
(* record of the turns of the for (;;) loop: seen lists the subbands of    *)
(* the turns of the round under way, ran those of them whose task was      *)
(* called, whole is what seen was when the last round ended, inits lists  *)
(* the calls of init so far as <<subband, round>>, and turn tells of the   *)
(* last turn: its subband, whether it was skipped, what its task returned. *)
(***************************************************************************)
\* the locals at the first test of while ((!done) && (!eob))
ScheduleLocals(image) ==
  [state |-> 0, plane |-> 0, level |-> 0, orientation |-> 0, round |-> 0, done |-> 0,
   scan |-> NewScanContext(image.scan_order), seen |-> <<>>, ran |-> <<>>, whole |-> <<>>,
   inits |-> <<>>, turn |-> [key |-> <<0, 0, 0>>, skip |-> TRUE, ok |-> FALSE]]

\* ScheduleRun calling init in every round from the schedule round on
ScheduleRunInitAgain(ctx, sched, key, decoding) ==
  LET band == ctx.band[key]
      TaskRan(i, t) ==
        [ctx |-> [ctx EXCEPT !.band[key] = t.band, !.buffer = t.buffer, !.data = t.data],
         scan |-> i.scan, ok |-> t.ok, init |-> TRUE]
      Encoded(e) == [ok |-> e.ok, band |-> e.band, buffer |-> e.buffer, data |-> ctx.data]
      InitRan(i) ==
        TaskRan(i, IF decoding THEN SQZ_decode_bitplane(i.band, i.buffer, ctx.data)
                   ELSE Encoded(SQZ_encode_bitplane(i.band, i.buffer, ctx.data)))
      Scan(scan0) ==
        InitRan(IF decoding THEN SQZ_decode_init_subband(band, scan0, ctx.buffer)
                ELSE SQZ_encode_init_subband(band, scan0, ctx.buffer, ctx.data))
  IN Scan(SQZ_scan_init(sched.scan, band.width, band.height))
\* init(band, &scan, buffer) followed by task(band, buffer), or task alone;
\* returns [ctx, scan, ok, init], init telling whether init was called
ScheduleRun(ctx, sched, key, decoding) ==
  LET band == ctx.band[key]
      first == band.round = sched.round
      \* i is what init returned, t what task returned
      TaskRan(i, t) ==
        [ctx |-> [ctx EXCEPT !.band[key] = t.band, !.buffer = t.buffer, !.data = t.data],
         scan |-> i.scan, ok |-> t.ok, init |-> first]
      Encoded(e) == [ok |-> e.ok, band |-> e.band, buffer |-> e.buffer, data |-> ctx.data]
      InitRan(i) ==
        TaskRan(i, IF decoding THEN SQZ_decode_bitplane(i.band, i.buffer, ctx.data)
                   ELSE Encoded(SQZ_encode_bitplane(i.band, i.buffer, ctx.data)))
      Scan(scan0) ==
        InitRan(IF ~first THEN [band |-> band, scan |-> scan0, buffer |-> ctx.buffer]
                ELSE IF decoding THEN SQZ_decode_init_subband(band, scan0, ctx.buffer)
                ELSE SQZ_encode_init_subband(band, scan0, ctx.buffer, ctx.data))
  IN Scan(IF first THEN SQZ_scan_init(sched.scan, band.width, band.height) ELSE sched.scan)

\* ScheduleNext going through the subbands of plane 0 only
ScheduleNextLumaOnly(image, sched) ==
  LET o1 == sched.orientation + 1
      l1 == sched.level + 1
      o2 == IF l1 < image.dwt_levels THEN 1 ELSE 0
  IN IF o1 < SQZ_DWT_SUBBANDS
       THEN [sched |-> [sched EXCEPT !.orientation = o1], brk |-> FALSE]
     ELSE IF o2 # 0
       THEN [sched |-> [sched EXCEPT !.level = l1, !.orientation = o2], brk |-> FALSE]
     ELSE [sched |-> [sched EXCEPT !.level = 0, !.orientation = 0], brk |-> TRUE]
\* the index bookkeeping at the end of the for (;;) body; returns [sched, brk]
ScheduleNext(image, sched) ==
  LET o1 == sched.orientation + 1
      l1 == sched.level + 1
      o2 == IF l1 < image.dwt_levels THEN 1 ELSE 0
      many == IF image.num_planes > 1 THEN 1 ELSE 0
  IN IF sched.state = 0
       THEN IF o1 < SQZ_DWT_SUBBANDS
              THEN [sched |-> [sched EXCEPT !.orientation = o1], brk |-> FALSE]
            ELSE IF o2 # 0
              THEN [sched |-> [sched EXCEPT !.level = l1, !.orientation = o2], brk |-> FALSE]
            ELSE [sched |-> [sched EXCEPT !.level = 0, !.orientation = 0,
                                          !.state = many, !.plane = many],
                  brk |-> many = 0]
     ELSE IF sched.plane + 1 < image.num_planes
       THEN [sched |-> [sched EXCEPT !.plane = @ + 1], brk |-> FALSE]
     ELSE IF o1 < SQZ_DWT_SUBBANDS
       THEN [sched |-> [sched EXCEPT !.plane = 1, !.orientation = o1], brk |-> FALSE]
     ELSE IF o2 # 0
       THEN [sched |-> [sched EXCEPT !.plane = 1, !.level = l1, !.orientation = o2],
             brk |-> FALSE]
     ELSE [sched |-> [sched EXCEPT !.level = 0, !.orientation = 0, !.state = 0, !.plane = 0],
           brk |-> TRUE]

\* done after a turn that let the task run for every subband alike
ScheduleDoneAnyBitplane(done, round, band, skip) ==
  IF skip THEN BitAnd(done, IF round > band.round THEN 1 ELSE 0) ELSE done

\* done after a turn of the for (;;) loop: done &= (round > band->round) when
\* the subband was skipped, done &= (band->bitplane == 0) after its task
ScheduleDone(done, round, band, skip) ==
  IF skip THEN BitAnd(done, IF round > band.round THEN 1 ELSE 0)
  ELSE BitAnd(done, IF band.bitplane = 0 THEN 1 ELSE 0)

\* one turn of the for (;;) loop of SQZ_schedule_task, with the ++round and the
\* while test that follow a break; returns [ctx, sched, ret], ret = the function
\* returned (always SQZ_RESULT_OK, no allocation failing)
ScheduleVisit(ctx, sched, decoding) ==
  LET key == <<sched.plane, sched.level, sched.orientation>>
      band == ctx.band[key]
      skip == sched.round < band.round \/ (sched.round > band.round /\ band.bitplane = 0)
      \* nx is what the index bookkeeping returned, ctx1 the context by then
      Leave(ctx1, nx, s2) ==
        IF ~nx.brk THEN [ctx |-> ctx1, sched |-> nx.sched, ret |-> FALSE]
        ELSE IF s2.done = 0 /\ ~SQZ_bit_buffer_eob(ctx1.buffer)
          THEN [ctx |-> ctx1, sched |-> [s2 EXCEPT !.done = 1], ret |-> FALSE]
        ELSE [ctx |-> ctx1, sched |-> s2, ret |-> TRUE]
      Advance(ctx1, nx) ==
        Leave(ctx1, nx, [nx.sched EXCEPT !.round = @ + 1, !.whole = nx.sched.seen,
                                         !.seen = <<>>, !.ran = <<>>])
      \* run is what init and task did to the subband (not skipped)
      Visited(run) ==
        IF ~skip /\ ~run.ok
          THEN [ctx |-> run.ctx,
                sched |-> [sched EXCEPT !.scan = run.scan, !.seen = Append(@, key),
                                        !.ran = Append(@, key),
                                        !.turn = [key |-> key, skip |-> FALSE,
                                                  ok |-> FALSE],
                                        !.inits = IF run.init
                                                    THEN Append(@, <<key, sched.round>>)
                                                    ELSE @],
                ret |-> TRUE]
          ELSE Advance(IF skip THEN ctx ELSE run.ctx,
                       ScheduleNext(ctx.image,
                         [sched EXCEPT
                            !.done = IF skip THEN ScheduleDone(@, sched.round, band, skip)
                                     ELSE ScheduleDone(@, sched.round, run.ctx.band[key], skip),
                            !.scan = IF skip THEN @ ELSE run.scan,
                            !.seen = Append(@, key),
                            !.ran = IF skip THEN @ ELSE Append(@, key),
                            !.turn = [key |-> key, skip |-> skip, ok |-> ~skip],
                            !.inits = IF ~skip /\ run.init
                                        THEN Append(@, <<key, sched.round>>)
                                        ELSE @]))
  IN Visited(ScheduleRun(ctx, sched, key, decoding))

(***************************************************************************)
(* The two entry points, as seen by a caller that encodes an image and     *)
(* then decodes the bytes it got (or bytes it made up)                     *)
(***************************************************************************)
VARIABLES
  pc,              \* "idle"; "transform", "encode" (inside SQZ_encode); "encoded";
                   \* "decode", "round", "reconstruct" (inside SQZ_decode); "decoded"
  source,          \* the pixels handed to SQZ_encode
  dest,            \* the memory handed to SQZ_encode as dest, guard bytes included
  descriptor,      \* the caller's descriptor of SQZ_encode
  budget,          \* *budget
  result,          \* what SQZ_encode returned
  stream,          \* the memory handed to SQZ_decode as source
  src_size,        \* src_size of SQZ_decode
  pixels,          \* the memory handed to SQZ_decode as dest (no bytes: NULL)
  dest_size,       \* *dest_size
  info,            \* the caller's descriptor of SQZ_decode
  status,          \* what SQZ_decode returned
  ctx,             \* SQZ_context_t ctx of the running (or last) call
  sched,           \* the locals of SQZ_schedule_task
  entry,           \* the arguments as they were when the last call was entered
  earlier,         \* what the caller noted of its decode of a shorter prefix
  unit             \* the state of a function the caller exercises on its own

vars == <<pc, source, dest, descriptor, budget, result, stream, src_size, pixels,
          dest_size, info, status, ctx, sched, entry, earlier, unit>>

encodeVars == <<source, dest, descriptor, budget, result>>
decodeVars == <<stream, src_size, pixels, dest_size, info, status, earlier, unit>>

\* a buffer of n bytes, all equal to fill
Bytes(n, fill) == Array([i \in 0..(n - 1) |-> fill])
NoBuffer == Bytes(0, 0)

\* SQZ_context_t ctx = { 0 }
ZeroContext ==
  [image |-> ZeroDescriptor, data |-> NoBuffer, buffer |-> SQZ_bit_buffer_init(NoBuffer, 0),
   band |-> [k \in {} |-> 0]]

NoEntry == [call |-> "none"]

\* the caller has decoded no shorter prefix before
NoEarlier == [size |-> 0, error |-> 0]

\* the caller exercises no function on its own
NoUnit == [of |-> "none"]

Init ==
  /\ pc = "idle"
  /\ source = NoBuffer
  /\ dest = NoBuffer
  /\ descriptor = ZeroDescriptor
  /\ budget = 0
  /\ result = NO_RESULT
  /\ stream = NoBuffer
  /\ src_size = 0
  /\ pixels = NoBuffer
  /\ dest_size = 0
  /\ info = ZeroDescriptor
  /\ status = NO_RESULT
  /\ ctx = ZeroContext
  /\ sched = ScheduleLocals(ZeroDescriptor)
  /\ entry = NoEntry
  /\ earlier = NoEarlier
  /\ unit = NoUnit

\* the test of while ((!done) && (!eob)) on entry to SQZ_schedule_task
ScheduleEnter(context) ==
  LET s0 == ScheduleLocals(context.image)
  IN IF SQZ_bit_buffer_eob(context.buffer) THEN [sched |-> s0, ret |-> TRUE]
     ELSE [sched |-> [s0 EXCEPT !.done = 1], ret |-> FALSE]

\* SQZ_encode(src, mem, &d, &b) up to the colour transform: validation, header,
\* context and SQZ_color_process(ctx, src, 1)
EncodeEnter(src, mem, d, b) ==
  /\ source' = src
  /\ entry' = [call |-> "encode", descriptor |-> d, size |-> b, dest |-> mem]
  /\ UNCHANGED decodeVars
  /\ budget' = b
  /\ \E v \in {SQZ_validate_input(d, 0)} :
       /\ descriptor' = v.descriptor
       /\ IF v.result # SQZ_RESULT_OK
            THEN /\ result' = v.result
                 /\ dest' = mem
                 /\ pc' = "encoded"
                 /\ UNCHANGED <<ctx, sched>>
            ELSE \E h \in {SQZ_encode_header(v.descriptor, SQZ_bit_buffer_init(mem, b))} :
                   /\ dest' = h.buf.data
                   /\ UNCHANGED sched
                   /\ IF ~h.ok
                        THEN /\ result' = SQZ_BUFFER_TOO_SMALL
                             /\ pc' = "encoded"
                             /\ ctx' = [ZeroContext EXCEPT !.image = v.descriptor,
                                                           !.buffer = h.buf]
                        ELSE /\ result' = NO_RESULT
                             /\ pc' = "transform"
                             /\ \E c0 \in {SQZ_common_init_context(
                                             [ZeroContext EXCEPT !.image = v.descriptor,
                                                                 !.buffer = h.buf])} :
                                  ctx' = [c0 EXCEPT !.data =
                                            SQZ_color_process_read(c0.image, c0.data, src)]

\* SQZ_dwt, SQZ_dwt_convert_to_sign_magnitude and the entry of SQZ_schedule_task
\* inside SQZ_encode
EncodeTransform ==
  /\ pc = "transform"
  /\ \E c1 \in {[ctx EXCEPT !.data = SQZ_dwt_convert_to_sign_magnitude(
                                       ctx.image, SQZ_dwt(ctx.image, ctx.data))]} :
       /\ ctx' = c1
       /\ sched' = ScheduleEnter(c1).sched
       /\ IF ScheduleEnter(c1).ret
            THEN /\ budget' = (SQZ_bit_buffer_bits_used(c1.buffer) + 7) \div 8
                 /\ result' = SQZ_RESULT_OK
                 /\ pc' = "encoded"
            ELSE UNCHANGED <<budget, result>> /\ pc' = "encode"
  /\ UNCHANGED <<source, dest, descriptor, entry>>
  /\ UNCHANGED decodeVars

\* one subband visit of SQZ_schedule_task inside SQZ_encode; the visit that
\* ends the scheduler also stores *budget and returns
EncodeStep ==
  /\ pc = "encode"
  /\ \E v \in {ScheduleVisit(ctx, sched, FALSE)} :
       /\ ctx' = v.ctx
       /\ sched' = v.sched
       /\ dest' = v.ctx.buffer.data
       /\ IF v.ret
            THEN /\ budget' = (SQZ_bit_buffer_bits_used(v.ctx.buffer) + 7) \div 8
                 /\ result' = SQZ_RESULT_OK
                 /\ pc' = "encoded"
            ELSE UNCHANGED <<budget, result, pc>>
  /\ UNCHANGED <<source, descriptor, entry>>
  /\ UNCHANGED decodeVars

\* SQZ_decode(bytes, mem, n, &size, &d) up to the first subband visit of the
\* scheduler; oob is what an out-of-bounds read of SQZ_number_of_planes yields
DecodeEnter(bytes, mem, n, size, d, oob) ==
  LET return(r) == /\ status' = r
                   /\ pc' = "decoded"
      \* a return that leaves the caller's descriptor and *dest_size alone
      refuse(r) == /\ return(r)
                   /\ dest_size' = size
                   /\ info' = d
  IN /\ stream' = bytes
     /\ src_size' = n
     /\ entry' = [call |-> "decode", descriptor |-> d, size |-> size, dest |-> mem]
     /\ UNCHANGED encodeVars
     /\ pixels' = mem
     /\ IF mem = NoBuffer /\ size # 0
          THEN refuse(SQZ_INVALID_PARAMETER) /\ UNCHANGED <<ctx, sched>>
          ELSE \E h \in {SQZ_decode_header(ZeroDescriptor, SQZ_bit_buffer_init(bytes, n), oob)} :
                 IF h.fault
                   THEN refuse(FAULT) /\ UNCHANGED <<ctx, sched>>
                 ELSE IF ~h.ok
                   THEN /\ refuse(SQZ_INVALID_PARAMETER)
                        /\ ctx' = [ZeroContext EXCEPT !.image = h.descriptor, !.buffer = h.buf]
                        /\ UNCHANGED sched
                 ELSE
                   \E v \in {SQZ_validate_input(h.descriptor, 1)} :
                     IF v.result # SQZ_RESULT_OK
                       THEN /\ refuse(v.result)
                            /\ ctx' = [ZeroContext EXCEPT !.image = h.descriptor,
                                                          !.buffer = h.buf]
                            /\ UNCHANGED sched
                     ELSE IF ULt(size, h.descriptor.width * h.descriptor.height
                                       * h.descriptor.num_planes)
                       THEN /\ return(SQZ_BUFFER_TOO_SMALL)
                            /\ dest_size' = h.descriptor.width * h.descriptor.height
                                            * h.descriptor.num_planes
                            /\ info' = h.descriptor
                            /\ ctx' = [ZeroContext EXCEPT !.image = h.descriptor,
                                                          !.buffer = h.buf]
                            /\ UNCHANGED sched
                     ELSE /\ info' = h.descriptor
                          /\ dest_size' = size
                          /\ status' = NO_RESULT
                          /\ pc' = "decode"
                          /\ \E c0 \in {SQZ_common_init_context(
                                          [ZeroContext EXCEPT !.image = h.descriptor,
                                                              !.buffer = h.buf])} :
                               /\ ctx' = c0
                               /\ sched' = ScheduleEnter(c0).sched

\* one subband visit of SQZ_schedule_task inside SQZ_decode
DecodeStep ==
  /\ pc = "decode"
  /\ \E v \in {ScheduleVisit(ctx, sched, TRUE)} :
       /\ sched' = v.sched
       /\ IF v.ret
            THEN /\ ctx' = v.ctx
                 /\ pc' = "round"
            ELSE /\ ctx' = v.ctx
                 /\ UNCHANGED pc
  /\ UNCHANGED <<stream, src_size, pixels, dest_size, info, status, entry, earlier, unit>>
  /\ UNCHANGED encodeVars

\* SQZ_decode_round_coefficients(&ctx), the scheduler having returned
DecodeRound ==
  /\ pc = "round"
  /\ ctx' = [ctx EXCEPT !.data = SQZ_decode_round_coefficients(ctx)]
  /\ pc' = "reconstruct"
  /\ UNCHANGED <<stream, src_size, pixels, dest_size, info, status, sched, entry, earlier,
                 unit>>
  /\ UNCHANGED encodeVars

\* SQZ_dwt_convert_from_sign_magnitude, SQZ_idwt and SQZ_color_process(ctx,
\* dest, 0), after which SQZ_decode returns
DecodeFinish ==
  /\ pc = "reconstruct"
  /\ \E data \in {SQZ_idwt(ctx.image,
                           SQZ_dwt_convert_from_sign_magnitude(ctx.image, ctx.data))} :
       /\ ctx' = [ctx EXCEPT !.data = data]
       /\ pixels' = SQZ_color_process_write(ctx.image, data, pixels)
  /\ status' = SQZ_RESULT_OK
  /\ pc' = "decoded"
  /\ UNCHANGED <<stream, src_size, dest_size, info, sched, entry, earlier, unit>>
  /\ UNCHANGED encodeVars

(***************************************************************************)
(* The caller: the images it encodes and the streams it decodes            *)
(***************************************************************************)
\* bytes after the end of a buffer that the callee must leave alone
Guard == 2
\* what malloc'ed memory holds before SQZ_decode writes the pixels
Stale == 170

\* byte i of the test image of a pattern
PixelAt(pattern, i) ==
  CASE pattern = 0 -> 200
    [] pattern = 1 -> (i * 8) % 256
    [] pattern = 2 -> (i * 37 + (i \div 7) * 53 + 11) % 256
    [] pattern = 3 -> IF i % 2 = 1 THEN 255 ELSE 0

Config(w, h, cm, so, lv, ss, pattern, b) ==
  [width |-> w, height |-> h, color_mode |-> cm, scan_order |-> so, dwt_levels |-> lv,
   subsampling |-> ss, pattern |-> pattern, budget |-> b]

\* W * H * num_planes * 2, the budget at which the encoder never runs out
Ample(w, h, cm) == w * h * SQZ_number_of_planes[cm] * 2

\* the budgets at which the caller encodes the solid image: two payload bytes,
\* the budgets about the length of its whole stream (25 bytes), and no limit
SolidBudgets == {8, 16, 17, 22, 23, 24, 25, 26, Ample(8, 8, 0)}

\* the images the caller encodes: both colour modes, the four scan orders, odd
\* sizes, two levels, a level count the encoder clamps, the values main() can
\* pass as subsampling, and budgets that cut the stream short
Configs ==
  {Config(8, 8, SQZ_COLOR_MODE_GRAYSCALE, so, 1, 0, 2, Ample(8, 8, 0)) : so \in 0..3}
  \cup
  {Config(9, 11, SQZ_COLOR_MODE_GRAYSCALE, SQZ_SCAN_ORDER_HILBERT, 1, 0, 2, Ample(9, 11, 0)),
   Config(16, 16, SQZ_COLOR_MODE_GRAYSCALE, SQZ_SCAN_ORDER_RASTER, 2, 0, 2, Ample(16, 16, 0)),
   Config(8, 8, SQZ_COLOR_MODE_GRAYSCALE, SQZ_SCAN_ORDER_SNAKE, 5, 0, 1, Ample(8, 8, 0)),
   Config(8, 8, SQZ_COLOR_MODE_YCOCG_R, SQZ_SCAN_ORDER_RASTER, 1, 0, 2, Ample(8, 8, 1)),
   Config(8, 8, SQZ_COLOR_MODE_YCOCG_R, SQZ_SCAN_ORDER_SNAKE, 1, 1, 2, Ample(8, 8, 1)),
   Config(8, 8, SQZ_COLOR_MODE_YCOCG_R, SQZ_SCAN_ORDER_RASTER, 1, 2, 2, Ample(8, 8, 1)),
   Config(12, 9, SQZ_COLOR_MODE_YCOCG_R, SQZ_SCAN_ORDER_MORTON, 1, 1, 3, Ample(12, 9, 1)),
   Config(8, 8, SQZ_COLOR_MODE_GRAYSCALE, SQZ_SCAN_ORDER_RASTER, 1, 0, 2, 12),
   Config(8, 8, SQZ_COLOR_MODE_GRAYSCALE, SQZ_SCAN_ORDER_MORTON, 1, 0, 3, 30),
   Config(8, 8, SQZ_COLOR_MODE_GRAYSCALE, SQZ_SCAN_ORDER_RASTER, 1, 0, 0, 7)}
  \cup
  {Config(8, 8, SQZ_COLOR_MODE_GRAYSCALE, SQZ_SCAN_ORDER_RASTER, 1, 0, 0, b) : b \in SolidBudgets}

Image(c) ==
  Array([i \in 0..(c.width * c.height * SQZ_number_of_planes[c.color_mode] - 1) |->
     PixelAt(c.pattern, i)])

\* the caller encodes one of its images into zeroed memory
EncodeStart ==
  /\ pc = "idle"
  /\ \E c \in Configs :
       EncodeEnter(Image(c), Bytes(c.budget + Guard, 0),
                   Descriptor(c.color_mode, c.scan_order, c.width, c.height,
                              c.dwt_levels, 0, c.subsampling),
                   c.budget)

\* the first k bytes of the encoder's output
Prefix(k) == Array([i \in 0..(k - 1) |-> dest[i]])

\* the lengths at which the caller cuts the stream
PrefixLengths == {SQZ_HEADER_SIZE, SQZ_HEADER_SIZE + 1, SQZ_HEADER_SIZE + 2,
                  (budget + SQZ_HEADER_SIZE) \div 2, budget - 1, budget}
                 \cap (SQZ_HEADER_SIZE..budget)

\* what the caller does to the bytes after the header before decoding them
Tampers == {"none", "zeros", "ones", "flip"}
Tamper(bytes, t) ==
  Array([i \in DOMAIN bytes |->
     IF i < SQZ_HEADER_SIZE \/ t = "none" THEN bytes[i]
     ELSE IF t = "zeros" THEN 0
     ELSE IF t = "ones" THEN 255
     ELSE BitXor(bytes[i], 85)])

\* width * height * num_planes of the encoded image
SourceLength == descriptor.width * descriptor.height * descriptor.num_planes

\* the memory the caller hands to SQZ_decode for a dest_size of size: room for
\* size bytes and the guard bytes after it, or no memory at all (NULL)
Room(size) == Bytes(size + Guard, Stale)

\* the caller decodes what the encoder produced: all of it or a prefix, as it
\* is or tampered with, asking for the size (dest_size 0, with or without a
\* dest) or passing room for the pixels
DecodeStart ==
  /\ pc = "encoded"
  /\ result = SQZ_RESULT_OK
  /\ \E k \in PrefixLengths, t \in Tampers, size \in {0, SourceLength},
        mem \in {NoBuffer, Room(0), Room(SourceLength)} :
       /\ t = "none" \/ k = budget
       /\ size # 0 \/ (t = "none" /\ k \in {SQZ_HEADER_SIZE, SQZ_HEADER_SIZE + 1, budget})
       /\ IF size = 0 THEN mem \in {NoBuffer, Room(0)} ELSE mem = Room(size)
       /\ DecodeEnter(Tamper(Prefix(k), t), mem, k, size, ZeroDescriptor, 0)
  /\ UNCHANGED <<earlier, unit>>

\* the second call of the size query protocol: same stream, a dest of the
\* size the first call reported
DecodeAgain ==
  /\ pc = "decoded"
  /\ status = SQZ_BUFFER_TOO_SMALL
  /\ entry.size = 0
  /\ DecodeEnter(stream, Room(dest_size), src_size, dest_size, info, 0)
  /\ UNCHANGED <<earlier, unit>>

\* the sum over the pixels of the squared difference between the decoded image
\* and the encoder's source, four pixels at a time
RECURSIVE SquaredErrorFrom(_)
SquaredErrorFrom(i) ==
  IF i >= SourceLength THEN 0
  ELSE (pixels[i] - source[i]) * (pixels[i] - source[i])
       + (IF i + 1 >= SourceLength THEN 0
          ELSE (pixels[i + 1] - source[i + 1]) * (pixels[i + 1] - source[i + 1]))
       + (IF i + 2 >= SourceLength THEN 0
          ELSE (pixels[i + 2] - source[i + 2]) * (pixels[i + 2] - source[i + 2]))
       + (IF i + 3 >= SourceLength THEN 0
          ELSE (pixels[i + 3] - source[i + 3]) * (pixels[i + 3] - source[i + 3]))
       + SquaredErrorFrom(i + 4)

SquaredError == SquaredErrorFrom(0)

\* the caller notes the error of the image it decoded from the first bytes of
\* the stream and decodes a longer prefix of the same stream
DecodeLonger ==
  /\ pc = "decoded"
  /\ status = SQZ_RESULT_OK
  /\ entry.size = SourceLength
  /\ stream = Prefix(src_size)
  /\ earlier = NoEarlier
  /\ \E k \in PrefixLengths :
       /\ k > src_size
       /\ DecodeEnter(Prefix(k), Room(SourceLength), k, SourceLength, ZeroDescriptor, 0)
  /\ earlier' = [size |-> src_size, error |-> SquaredError]
  /\ UNCHANGED unit

Next ==
  \/ EncodeStart
  \/ EncodeTransform
  \/ EncodeStep
  \/ DecodeStart
  \/ DecodeStep
  \/ DecodeRound
  \/ DecodeFinish
  \/ DecodeAgain
  \/ DecodeLonger

Spec == Init /\ [][Next]_vars

(***************************************************************************)
(* The caller at the edges of the interface: descriptors SQZ_encode must   *)
(* refuse or clamp, budgets that hold the header at most, and streams the  *)
(* caller puts together byte by byte.  None of these calls gets as far as  *)
(* reading the pixels or coding a subband.                                 *)
(***************************************************************************)
\* the values the caller tries for each field of the encoder's descriptor
\* (-1 is what a negative int becomes in an enum or a size_t: the largest value)
ApiWidths == {7, 8, 300, 65535, 65536}
ApiHeights == {7, 8, 256, 65536}
ApiColorModes == {-1, 0, 3, 4}
ApiScanOrders == {0, 3, 4}
ApiLevels == {0, 1, 7, 8, 9}
ApiSubsamplings == {0, 1, 2}
ApiBudgets == {3, SQZ_HEADER_SIZE}

\* the pixel memory of these calls: SQZ_encode returns before it reads any of it
ApiSource == Bytes(SQZ_MIN_DIMENSION * SQZ_MIN_DIMENSION, Stale)

\* a descriptor holding what the caller left in it before calling SQZ_decode
StaleDescriptor == Descriptor(1, 1, 24, 24, 2, 3, 1)

\* SQZ_encode with a budget too small for anything after the header
ApiEncode ==
  /\ pc = "idle"
  /\ \E w \in ApiWidths, h \in ApiHeights, cm \in ApiColorModes, so \in ApiScanOrders,
        lv \in ApiLevels, ss \in ApiSubsamplings, b \in ApiBudgets :
       EncodeEnter(ApiSource, Bytes(b + Guard, 0), Descriptor(cm, so, w, h, lv, 0, ss), b)

\* the six bytes of a header as the format lays them out
HeaderBytes(magic, w, h, cm, lv, so, ss) ==
  <<magic, ((w - 1) \div 256) % 256, (w - 1) % 256, ((h - 1) \div 256) % 256, (h - 1) % 256,
    (cm % 4) * 64 + ((lv - 1) % 8) * 8 + (so % 4) * 2 + (ss % 2)>>

\* a stream of n bytes: the first n of the header bytes hb, then bytes equal to fill
Crafted(hb, n, fill) ==
  Array([i \in 0..(n - 1) |-> IF i < Len(hb) THEN hb[i + 1] ELSE fill])

\* the ways the caller passes dest, *dest_size and its descriptor to SQZ_decode:
\* <<dest, *dest_size, descriptor>>
ApiCalls ==
  {<<NoBuffer, 0, ZeroDescriptor>>, <<Room(0), 0, StaleDescriptor>>,
   <<Room(5), 5, StaleDescriptor>>, <<NoBuffer, 5, ZeroDescriptor>>}

StreamWidths == {7, 8, 300, 65536}
StreamHeights == {7, 8, 256}
StreamMagics == {SQZ_HEADER_MAGIC, 0}
StreamModes == {0, 3}
StreamOrders == {<<0, 0>>, <<3, 1>>}
StreamLengths == {0, 1, 3, SQZ_HEADER_SIZE - 1, SQZ_HEADER_SIZE, SQZ_HEADER_SIZE + 1}

\* what a read of SQZ_number_of_planes outside the table can do: fault (-1) or
\* yield a byte of other memory
PlanesReads == {-1, 0, 3, 255}

\* SQZ_decode of a stream the caller put together, with a dest too small for
\* any image
ApiDecode ==
  /\ pc = "idle"
  /\ \E magic \in StreamMagics, w \in StreamWidths, h \in StreamHeights,
        cm \in StreamModes, lv \in 1..SQZ_DWT_MAX_LEVEL, o \in StreamOrders,
        n \in StreamLengths, c \in ApiCalls, oob \in PlanesReads :
       DecodeEnter(Crafted(HeaderBytes(magic, w, h, cm, lv, o[1], o[2]), n, Stale),
                   c[1], n, c[2], c[3], oob)
  /\ UNCHANGED <<earlier, unit>>

\* SQZ_decode of the header SQZ_encode wrote into a budget of six bytes,
\* followed by one more byte
ApiDecodeHeader ==
  /\ pc = "encoded"
  /\ result = SQZ_BUFFER_TOO_SMALL
  /\ budget = SQZ_HEADER_SIZE
  /\ \E fill \in {0, 255}, c \in {c \in ApiCalls : c[1] # NoBuffer} :
       DecodeEnter(Crafted(<<dest[0], dest[1], dest[2], dest[3], dest[4], dest[5]>>,
                           SQZ_HEADER_SIZE + 1, fill),
                   c[1], SQZ_HEADER_SIZE + 1, c[2], c[3], 0)
  /\ UNCHANGED <<earlier, unit>>

NextApi ==
  \/ ApiEncode
  \/ ApiDecode
  \/ ApiDecodeHeader

SpecApi == Init /\ [][NextApi]_vars

(***************************************************************************)
(* Properties of the encoder and of the decoder on the encoder's output    *)
(***************************************************************************)
\* the budget the running or last SQZ_encode was given: dest is that long, and
\* the guard bytes follow it
Passed == Cardinality(DOMAIN dest) - Guard

\* SQZ_decode has returned from a call that was given room for the pixels
DecodeReturned ==
  pc = "decoded" /\ entry.call = "decode" /\ entry.size = SourceLength

\* the stream that was decoded is a prefix of the encoder's output, as it is
Untouched == stream = Prefix(src_size)

\* the first SourceLength bytes of the decoder's dest are the encoder's source
PixelsAreSource == \A i \in 0..(SourceLength - 1) : pixels[i] = source[i]

\* the descriptor the decoder filled in says what the encoder's descriptor says
InfoIsDescriptor ==
  /\ info.width = descriptor.width
  /\ info.height = descriptor.height
  /\ info.num_planes = descriptor.num_planes
  /\ info.color_mode = descriptor.color_mode
  /\ info.scan_order = descriptor.scan_order
  /\ info.dwt_levels = descriptor.dwt_levels

\* what SQZ_decode reports of a stream of n bytes: the fields of its header
Reported(bytes, n) ==
  SQZ_decode_header(ZeroDescriptor, SQZ_bit_buffer_init(bytes, n), 0).descriptor

\* the descriptor the decoder filled in says what a decode of all of the
\* encoder's output reports
InfoIsWholeStreams ==
  LET whole == Reported(Prefix(budget), budget)
  IN /\ info.width = whole.width
     /\ info.height = whole.height
     /\ info.num_planes = whole.num_planes
     /\ info.color_mode = whole.color_mode
     /\ info.scan_order = whole.scan_order
     /\ info.dwt_levels = whole.dwt_levels

\* C1 (as claimed): an image in Grayscale or YCoCg-R, encoded into zeroed
\* memory with a budget of at least W * H * num_planes * 2 and decoded from all
\* the bytes the encoder produced, comes back byte for byte.
C1_LosslessRoundTrip ==
  (DecodeReturned /\ Untouched /\ src_size = budget /\ Passed >= 2 * SourceLength)
    => (status = SQZ_RESULT_OK /\ PixelsAreSource)

\* C2 (amended): for every k from 7 to the length N of the encoder's output,
\* SQZ_decode of the first k bytes into a large enough dest returns
\* SQZ_RESULT_OK and reports the width, height, num_planes, color_mode,
\* scan_order and dwt_levels that a decode of all N bytes reports.
C2_PrefixDecodes ==
  (DecodeReturned /\ Untouched /\ src_size > SQZ_HEADER_SIZE)
    => (status = SQZ_RESULT_OK /\ InfoIsWholeStreams /\ InfoIsDescriptor)

\* C2 witness: a decode of the first 7 bytes of a longer stream has returned
\* SQZ_RESULT_OK.
C2_Witness ==
  /\ DecodeReturned /\ Untouched
  /\ src_size = SQZ_HEADER_SIZE + 1 /\ src_size < budget
  /\ status = SQZ_RESULT_OK

\* C2 (as claimed): the same for every k from 6 to N.
C2_PrefixFromSix ==
  (DecodeReturned /\ Untouched /\ src_size >= SQZ_HEADER_SIZE)
    => (status = SQZ_RESULT_OK /\ InfoIsWholeStreams)

\* C3 (amended): whatever follows a valid header, as long as it is at least one
\* byte, SQZ_decode with a sufficient dest returns SQZ_RESULT_OK, and the
\* pixels it leaves are the inverse colour transform of the inverse DWT's
\* output, written over the memory the caller passed.
C3_TruncationTolerated ==
  (DecodeReturned /\ src_size > SQZ_HEADER_SIZE)
    => /\ status = SQZ_RESULT_OK
       /\ pixels = SQZ_color_process_write(ctx.image, ctx.data, entry.dest)

\* C3 witness: a decode of a stream whose payload the caller overwrote, and one
\* of a stream cut in the middle, have returned SQZ_RESULT_OK with pixels that
\* are not the source.
C3_Witness ==
  /\ DecodeReturned
  /\ src_size > SQZ_HEADER_SIZE
  /\ ~Untouched \/ src_size < budget
  /\ status = SQZ_RESULT_OK
  /\ ~PixelsAreSource

\* C3 (as claimed): the same for a payload of any length, none included.
C3_AnyPayloadLength ==
  DecodeReturned => status = SQZ_RESULT_OK

C9_BudgetRespected ==
  /\ (pc = "encoded" /\ entry.call = "encode" /\ result = SQZ_RESULT_OK)
       => /\ budget * 8 >= SQZ_bit_buffer_bits_used(ctx.buffer)
          /\ budget * 8 < SQZ_bit_buffer_bits_used(ctx.buffer) + 8
          /\ budget <= entry.size
  /\ entry.call = "encode"
       => \A i \in DOMAIN dest : i >= entry.size => dest[i] = entry.dest[i]

\* C9 witness: SQZ_encode has returned SQZ_RESULT_OK having used the whole of a
\* budget that was too small for the image.
C9_Witness ==
  /\ pc = "encoded" /\ entry.call = "encode" /\ result = SQZ_RESULT_OK
  /\ budget = entry.size
  /\ entry.size < SourceLength
  /\ dest[entry.size - 1] # 0

(***************************************************************************)
(* Properties of the two entry points at the edges of the interface        *)
(***************************************************************************)
\* SQZ_decode has returned
Decoded == pc = "decoded" /\ entry.call = "decode"

\* SQZ_encode has returned
Encoded == pc = "encoded" /\ entry.call = "encode"

\* SQZ_decode left dest, *dest_size and the caller's descriptor as they were
DecodeTouchedNothing ==
  pixels = entry.dest /\ dest_size = entry.size /\ info = entry.descriptor

\* the caller passed a dest, or asked for the size
DestPassed == entry.dest # NoBuffer \/ entry.size = 0

\* floor(log2(n)) for n in 1..2^17 - 1
Log2Floor(n) == CHOOSE k \in 0..16 : Pow2(k) <= n /\ n < Pow2(k + 1)

\* the fields a stream of six bytes or more declares, read off its bytes
DeclaredWidth == stream[1] * 256 + stream[2] + 1
DeclaredHeight == stream[3] * 256 + stream[4] + 1
DeclaredLevels == ((stream[5] \div 8) % 8) + 1

\* the stream has the magic byte and declares a width or a height below 8, or
\* more levels than its dimensions allow
DeclaresViolation ==
  /\ stream[0] = SQZ_HEADER_MAGIC
  /\ \/ DeclaredWidth < SQZ_MIN_DIMENSION
     \/ DeclaredHeight < SQZ_MIN_DIMENSION
     \/ DeclaredLevels > Log2Floor(Min(DeclaredWidth, DeclaredHeight)) - 2

\* C5: SQZ_decode of a stream whose first byte is not 0xA5 returns
\* SQZ_INVALID_PARAMETER and leaves dest, *dest_size and the caller's
\* descriptor as they were.
C5_BadMagicRefused ==
  (Decoded /\ src_size >= 1 /\ stream[0] # SQZ_HEADER_MAGIC)
    => (status = SQZ_INVALID_PARAMETER /\ DecodeTouchedNothing)

\* C5 witness: a decode of seven bytes with a first byte other than 0xA5 and a
\* header valid otherwise, called with a dest, has returned.
C5_Witness ==
  /\ Decoded /\ DestPassed /\ entry.dest # NoBuffer
  /\ src_size = SQZ_HEADER_SIZE + 1
  /\ stream[0] # SQZ_HEADER_MAGIC
  /\ DeclaredWidth = SQZ_MIN_DIMENSION /\ DeclaredHeight = SQZ_MIN_DIMENSION
  /\ DeclaredLevels = 1
  /\ status = SQZ_INVALID_PARAMETER

\* C6 (amended): SQZ_decode of a stream that is longer than its six-byte header,
\* has the right magic and declares a width or height below 8 or more levels
\* than its dimensions allow returns SQZ_DATA_CORRUPTED and leaves dest,
\* *dest_size and the caller's descriptor as they were.
C6_CorruptHeaderRefused ==
  (Decoded /\ DestPassed /\ src_size > SQZ_HEADER_SIZE /\ DeclaresViolation)
    => (status = SQZ_DATA_CORRUPTED /\ DecodeTouchedNothing)

\* C6 witness: a decode of a stream declaring 8x8 with two levels has returned
\* SQZ_DATA_CORRUPTED, and the caller's descriptor held something before.
C6_Witness ==
  /\ Decoded /\ DestPassed /\ src_size > SQZ_HEADER_SIZE
  /\ stream[0] = SQZ_HEADER_MAGIC
  /\ DeclaredWidth = SQZ_MIN_DIMENSION /\ DeclaredHeight = SQZ_MIN_DIMENSION
  /\ DeclaredLevels = 2
  /\ entry.descriptor = StaleDescriptor
  /\ status = SQZ_DATA_CORRUPTED

\* C6 (as claimed): the same for every stream that holds such a header, the
\* stream of the six header bytes alone included.
C6_CorruptHeaderAnyLength ==
  (Decoded /\ DestPassed /\ src_size >= SQZ_HEADER_SIZE /\ DeclaresViolation)
    => (status = SQZ_DATA_CORRUPTED /\ DecodeTouchedNothing)

\* the descriptor SQZ_encode was called with has a field out of its range
EntryOutOfRange ==
  \/ entry.descriptor.width \notin SQZ_MIN_DIMENSION..SQZ_MAX_DIMENSION
  \/ entry.descriptor.height \notin SQZ_MIN_DIMENSION..SQZ_MAX_DIMENSION
  \/ entry.descriptor.color_mode \notin 0..(SQZ_COLOR_MODE_COUNT - 1)
  \/ entry.descriptor.scan_order \notin 0..(SQZ_SCAN_ORDER_COUNT - 1)
  \/ entry.descriptor.dwt_levels \notin 1..SQZ_DWT_MAX_LEVEL

\* C7: SQZ_encode with a descriptor whose width or height is outside
\* [8, 65535], whose color_mode or scan_order is outside its enum, or whose
\* dwt_levels is 0 or above 8 returns SQZ_INVALID_PARAMETER and leaves dest,
\* *budget and the descriptor as they were.
C7_InvalidDescriptorRefused ==
  (Encoded /\ EntryOutOfRange)
    => /\ result = SQZ_INVALID_PARAMETER
       /\ dest = entry.dest /\ budget = entry.size /\ descriptor = entry.descriptor

\* C7 witness: SQZ_encode has refused a descriptor whose only fault is a
\* dwt_levels of 9.
C7_Witness ==
  /\ Encoded
  /\ entry.descriptor.width = 300 /\ entry.descriptor.height = 256
  /\ entry.descriptor.color_mode = 0 /\ entry.descriptor.scan_order = 0
  /\ entry.descriptor.dwt_levels = SQZ_DWT_MAX_LEVEL + 1
  /\ result = SQZ_INVALID_PARAMETER

\* the level bound as a function of floor(log2(min(W, H))) and an offset
LevelsWithin(d, offset) ==
  /\ d.dwt_levels >= 1
  /\ d.dwt_levels <= SQZ_DWT_MAX_LEVEL
  /\ d.dwt_levels <= Log2Floor(Min(d.width, d.height)) - offset

\* the dwt_levels field of the header SQZ_encode wrote
WrittenLevels == ((dest[5] \div 8) % 8) + 1

\* SQZ_encode accepted the descriptor (it returned something other than
\* SQZ_INVALID_PARAMETER)
Accepted == Encoded /\ result # SQZ_INVALID_PARAMETER

\* SQZ_decode refused the stream
Rejected == status \in {SQZ_INVALID_PARAMETER, SQZ_DATA_CORRUPTED}

\* C8 (amended): every descriptor SQZ_encode accepts is clamped so that, on
\* return and in the written header, 1 <= dwt_levels <= 8 and
\* dwt_levels <= floor(log2(min(W, H))) - 2; SQZ_decode rejects a header whose
\* dwt_levels exceeds floor(log2(min(W, H))) - 2.
C8_LevelBound ==
  /\ Accepted => /\ LevelsWithin(descriptor, 2)
                 /\ entry.size >= SQZ_HEADER_SIZE => WrittenLevels = descriptor.dwt_levels
  /\ (Decoded /\ src_size >= SQZ_HEADER_SIZE /\ stream[0] = SQZ_HEADER_MAGIC
        /\ DeclaredLevels > Log2Floor(Min(DeclaredWidth, DeclaredHeight)) - 2)
       => Rejected

\* C8 witness: SQZ_encode was called with 300x256 and 8 levels and has written
\* a header with the 6 levels it clamped them to.
C8_Witness ==
  /\ Accepted
  /\ entry.descriptor.width = 300 /\ entry.descriptor.height = 256
  /\ entry.descriptor.dwt_levels = SQZ_DWT_MAX_LEVEL
  /\ entry.size = SQZ_HEADER_SIZE
  /\ descriptor.dwt_levels = 6
  /\ WrittenLevels = 6

\* C8 (as claimed): the same with floor(log2(min(W, H))) - 3 as the bound.
C8_LevelBoundMinusThree ==
  Accepted => LevelsWithin(descriptor, 3)

\* SQZ_encode has returned from writing the header into a budget of six bytes
HeaderWrittenOut ==
  Encoded /\ entry.size = SQZ_HEADER_SIZE /\ result = SQZ_BUFFER_TOO_SMALL

\* SQZ_decode has returned from reading the header SQZ_encode wrote
HeaderReadBack == Decoded /\ result = SQZ_BUFFER_TOO_SMALL /\ Passed = SQZ_HEADER_SIZE

SolidImage ==
  /\ descriptor.width = 8 /\ descriptor.height = 8
  /\ descriptor.color_mode = SQZ_COLOR_MODE_GRAYSCALE
  /\ descriptor.scan_order = SQZ_SCAN_ORDER_RASTER
  /\ descriptor.dwt_levels = 1
  /\ \A i \in 0..63 : source[i] = 200

\* SQZ_encode has returned SQZ_RESULT_OK
EncodeReturnedOK == pc \notin {"idle", "transform", "encode"} /\ result = SQZ_RESULT_OK

\* for the solid image, from a budget of least bytes on: byte 0 of the stream is
\* the magic, and a decode of all the bytes the encoder produced is the input
SolidRoundTrip(least) ==
  /\ (EncodeReturnedOK /\ SolidImage) => dest[0] = 165
  /\ (DecodeReturned /\ Untouched /\ src_size = budget /\ SolidImage /\ Passed >= least)
       => (status = SQZ_RESULT_OK /\ PixelsAreSource)

\* C11 (amended): for the solid 8x8 Grayscale image of pixels 200, coded with
\* Raster and one level, byte 0 of the stream is 0xA5, and for every budget of
\* at least 23 bytes the decode of the encoded stream is the input.
C11_SolidImage == SolidRoundTrip(23)

\* C11 witness: the solid image encoded with a budget of 23 bytes has been
\* decoded to the input.
C11_Witness ==
  /\ DecodeReturned /\ Untouched /\ src_size = budget /\ SolidImage
  /\ Passed = 23 /\ budget = 23 /\ stream[0] = 165
  /\ status = SQZ_RESULT_OK /\ PixelsAreSource

\* C11 (as claimed): the same for every budget of at least 8 bytes.
C11_SolidImageFromEight == SolidRoundTrip(8)

\* C12 (as claimed): of two prefixes of one stream, both decoded with
\* SQZ_RESULT_OK, the image decoded from the longer one has a sum of squared
\* errors against the source that is no larger than that of the shorter one.
C12_MonotoneQuality ==
  (DecodeReturned /\ Untouched /\ status = SQZ_RESULT_OK /\ earlier # NoEarlier)
    => (earlier.size < src_size /\ earlier.error >= SquaredError)

(***************************************************************************)
(* The caller running one scan order over a rectangle on its own: the      *)
(* position after SQZ_scan_init, then the position after every call of the *)
(* scan function that returned nonzero                                     *)
(***************************************************************************)
\* the largest rectangle scanned: more than two default snake tiles wide and
\* more than one default snake tile high
MaxScanWidth == 9
MaxScanHeight == 17

\* every variable but unit
codecVars == <<pc, source, dest, descriptor, budget, result, stream, src_size, pixels,
               dest_size, info, status, ctx, sched, entry, earlier>>

\* SQZ_scan_init on a fresh context for a band of width x height
ScanStart ==
  /\ unit = NoUnit
  /\ \E type \in 0..(SQZ_SCAN_ORDER_COUNT - 1), width \in 1..MaxScanWidth,
        height \in 1..MaxScanHeight :
       \E c \in {SQZ_scan_init(NewScanContext(type), width, height)} :
         unit' = [of |-> "scan", width |-> width, height |-> height, ctx |-> c,
                  more |-> TRUE, seen |-> <<(<<c.x, c.y>>)>>]
  /\ UNCHANGED codecVars

\* one call of ctx->scan(ctx)
ScanAdvance ==
  /\ unit.of = "scan"
  /\ unit.more
  /\ \E r \in {ScanStep(unit.ctx)} :
       unit' = [unit EXCEPT !.ctx = r.ctx, !.more = r.more,
                            !.seen = IF r.more THEN Append(@, <<r.ctx.x, r.ctx.y>>) ELSE @]
  /\ UNCHANGED codecVars

NextScan ==
  \/ ScanStart
  \/ ScanAdvance

SpecScan == Init /\ [][NextScan]_vars

\* the positions the running scan has produced are inside the rectangle and
\* no two of them are the same
ScanSoFar ==
  /\ \A i \in 1..Len(unit.seen) :
       /\ unit.seen[i][1] >= 0 /\ unit.seen[i][1] < unit.width
       /\ unit.seen[i][2] >= 0 /\ unit.seen[i][2] < unit.height
  /\ Cardinality({unit.seen[i] : i \in 1..Len(unit.seen)}) = Len(unit.seen)

C14_SnakeAdjacency ==
  (unit.of = "scan" /\ unit.ctx.type = SQZ_SCAN_ORDER_SNAKE)
    => \A i \in 2..Len(unit.seen) :
         Abs(unit.seen[i][1] - unit.seen[i - 1][1])
           + Abs(unit.seen[i][2] - unit.seen[i - 1][2]) = 1

(***************************************************************************)
(* Properties of the three lists of a subband                              *)
(***************************************************************************)
\* SQZ_common_init_subband has run on the band: its node arena is allocated
Initialised(band) == band.cache.capacity > 0

\* the three lists of the band hold width * height nodes between them, their
\* length fields say how many each holds, and every position of the band is in
\* exactly one of them
ListsConserved(band) ==
  LET Whole(lip, lsp, nsp) ==
        /\ Len(lip) = band.LIP.length
        /\ Len(lsp) = band.LSP.length
        /\ Len(nsp) = band.NSP.length
        /\ Len(lip) + Len(lsp) + Len(nsp) = band.width * band.height
        /\ {lip[i] : i \in 1..Len(lip)} \cup {lsp[i] : i \in 1..Len(lsp)}
             \cup {nsp[i] : i \in 1..Len(nsp)}
             = (0..(band.width - 1)) \X (0..(band.height - 1))
  IN Whole(ListSeq(band, "LIP"), ListSeq(band, "LSP"), ListSeq(band, "NSP"))

\* C15: for every subband, after its initialisation and after every sorting
\* pass, refinement pass and merge of the encoder and of the decoder, passes
\* cut short by the end of the buffer included, |LIP| + |LSP| + |NSP| is
\* width * height of the subband and every position is in exactly one list.
C15_ListConservation ==
  \A k \in DOMAIN ctx.band : Initialised(ctx.band[k]) => ListsConserved(ctx.band[k])

\* C15 witness: the decoder has returned with a subband whose bitplane was cut
\* short by the end of the stream: positions remain in each of LIP, LSP and NSP.
C15_Witness ==
  /\ pc = "decoded" /\ status = SQZ_RESULT_OK
  /\ \E k \in DOMAIN ctx.band :
       /\ Initialised(ctx.band[k])
       /\ ctx.band[k].LIP.length > 0
       /\ ctx.band[k].LSP.length > 0
       /\ ctx.band[k].NSP.length > 0
       /\ ListsConserved(ctx.band[k])

(***************************************************************************)
(* The caller writing one run with SQZ_encode_write_wdr_run, then the bit  *)
(* that ends it, and reading it back with SQZ_decode_read_wdr_run          *)
(***************************************************************************)
\* every run up to MaxRun is tried, and the runs about each power of two
MaxRun == 300
\* the bit lengths of the runs tried: up to the 2^30 of the largest run
RunBits == 0..30
\* the memory the run is written to
WdrBytes == 10

WdrRuns ==
  (1..MaxRun)
  \cup {Pow2(k) - 1 : k \in RunBits \ {0}} \cup {Pow2(k) : k \in RunBits}
  \cup {Pow2(k) + 1 : k \in RunBits \ {0, 30}}
  \cup {Pow2(k) + Pow2(k - 1) + 5 : k \in RunBits \ {0, 1, 2, 30}}
  \cup {715827882, 357913941, 1073741823}

\* the number of bits the caller has written before the run
WdrLeads == {0, 3, 7}

\* n zero bits read (SQZ_bit_buffer_read_bit n times); returns the buffer
RECURSIVE SkipBits(_, _)
SkipBits(buffer, n) ==
  IF n = 0 THEN buffer ELSE SkipBits(SQZ_bit_buffer_read_bit(buffer).buf, n - 1)

\* the caller takes zeroed memory and a run
WdrStart ==
  /\ unit = NoUnit
  /\ \E run \in WdrRuns, lead \in WdrLeads :
       unit' = [of |-> "wdr", phase |-> "start", run |-> run, lead |-> lead,
                buf |-> SQZ_bit_buffer_write_bits(
                          SQZ_bit_buffer_init(Bytes(WdrBytes, 0), WdrBytes), 0, lead).buf,
                ok |-> TRUE, got |-> 0]
  /\ UNCHANGED codecVars

\* SQZ_encode_write_wdr_run(buffer, run), then SQZ_bit_buffer_write_bit(buffer, 1)
WdrWrite ==
  /\ unit.of = "wdr"
  /\ unit.phase = "start"
  /\ \E w \in {SQZ_encode_write_wdr_run(unit.buf, unit.run)} :
       \E m \in {SQZ_bit_buffer_write_bit(w.buf, 1)} :
         unit' = [unit EXCEPT !.phase = "written", !.buf = m.buf, !.ok = w.ok /\ m.ok]
  /\ UNCHANGED codecVars

\* SQZ_decode_read_wdr_run on a buffer over the same memory, from the bit the
\* run was written at
WdrRead ==
  /\ unit.of = "wdr"
  /\ unit.phase = "written"
  /\ \E r \in {SQZ_decode_read_wdr_run(
                 SkipBits(SQZ_bit_buffer_init(unit.buf.data, WdrBytes), unit.lead))} :
       unit' = [unit EXCEPT !.phase = "read", !.buf = r.buf, !.ok = r.ok, !.got = r.run]
  /\ UNCHANGED codecVars

NextWdr ==
  \/ WdrStart
  \/ WdrWrite
  \/ WdrRead

SpecWdr == Init /\ [][NextWdr]_vars

\* floor(log2(r)) for r in 1..2^30
RunLog2(r) == CHOOSE k \in RunBits : r \div Pow2(k) = 1

\* C16: for every positive run r up to 2^30, the bits SQZ_encode_write_wdr_run
\* writes for r, followed by a single 1 bit, are read back by
\* SQZ_decode_read_wdr_run as r, and the read consumes 2 * floor(log2 r) + 1
\* bits.
C16_WdrRoundTrip ==
  /\ (unit.of = "wdr" /\ unit.phase = "written")
       => /\ unit.ok
          /\ SQZ_bit_buffer_bits_used(unit.buf) - unit.lead = 2 * RunLog2(unit.run) + 1
  /\ (unit.of = "wdr" /\ unit.phase = "read")
       => /\ unit.ok
          /\ unit.got = unit.run
          /\ SQZ_bit_buffer_bits_used(unit.buf) - unit.lead = 2 * RunLog2(unit.run) + 1

\* C16 witness: the run 2^30, written from bit 3 of the memory on, has been read
\* back in 61 bits.
C16_Witness ==
  /\ unit.of = "wdr" /\ unit.phase = "read"
  /\ unit.run = 1073741824 /\ unit.got = 1073741824 /\ unit.lead = 3
  /\ SQZ_bit_buffer_bits_used(unit.buf) = 64

(***************************************************************************)
(* The caller running SQZ_dwt and then SQZ_idwt on planes of coefficients  *)
(* of the size the colour transforms produce (9 bits), which the lifting   *)
(* steps of the levels tried keep within int16_t                           *)
(***************************************************************************)
\* the plane sizes tried: even and odd, one level and two
DwtWidths == {8, 9, 12, 16, 17}
DwtHeights == {8, 11, 16}

\* coefficient i of a plane of test data: a ramp, noise, stripes of the
\* extreme luma values and noise over the range of the chroma planes
CoefficientAt(pattern, i) ==
  CASE pattern = 0 -> ((i * 8) % 256) - SQZ_COLOR_8BPC_LEVEL_OFFSET
    [] pattern = 1 -> ((i * 37 + (i \div 7) * 53 + 11) % 256) - SQZ_COLOR_8BPC_LEVEL_OFFSET
    [] pattern = 2 -> IF i % 2 = 1 THEN 127 ELSE -128
    [] pattern = 3 -> ((i * 73 + (i \div 5) * 29) % 511) - 255

\* the context after SQZ_common_init_context, its coefficients filled in
DwtStart ==
  /\ unit = NoUnit
  /\ \E width \in DwtWidths, height \in DwtHeights, planes \in {1, 3}, pattern \in 0..3 :
       \E image \in {Descriptor(IF planes = 1 THEN SQZ_COLOR_MODE_GRAYSCALE
                                ELSE SQZ_COLOR_MODE_YCOCG_R,
                                SQZ_SCAN_ORDER_RASTER, width, height, 0, planes, 0)} :
         \E levels \in 1..MaxLevel(image) :
           /\ planes = 1 \/ (width = 9 /\ height = 8)
           /\ unit' = [of |-> "dwt", phase |-> "start",
                       image |-> [image EXCEPT !.dwt_levels = levels],
                       orig |-> Array([i \in 0..(width * height * planes - 1) |->
                                         CoefficientAt(pattern, i)]),
                       data |-> Array([i \in 0..(width * height * planes - 1) |->
                                         CoefficientAt(pattern, i)])]
  /\ UNCHANGED codecVars

\* SQZ_dwt(&ctx)
DwtForward ==
  /\ unit.of = "dwt"
  /\ unit.phase = "start"
  /\ unit' = [unit EXCEPT !.phase = "forward", !.data = SQZ_dwt(unit.image, @)]
  /\ UNCHANGED codecVars

\* SQZ_idwt(&ctx)
DwtInverse ==
  /\ unit.of = "dwt"
  /\ unit.phase = "forward"
  /\ unit' = [unit EXCEPT !.phase = "inverse", !.data = SQZ_idwt(unit.image, @)]
  /\ UNCHANGED codecVars

NextDwt ==
  \/ DwtStart
  \/ DwtForward
  \/ DwtInverse

SpecDwt == Init /\ [][NextDwt]_vars

\* C17: SQZ_dwt followed by SQZ_idwt gives back every coefficient of every
\* plane, for even and odd dimensions and every level count allowed for them,
\* no intermediate value leaving the range of int16_t.
C17_DwtRoundTrip ==
  (unit.of = "dwt" /\ unit.phase = "inverse") => unit.data = unit.orig

\* C17 witness: a 17x11 plane (both odd) or a 16x16 plane at two levels has
\* been transformed, to other values, and transformed back.
C17_Witness ==
  /\ unit.of = "dwt" /\ unit.phase = "inverse"
  /\ \/ unit.image.width = 17 /\ unit.image.height = 11 /\ unit.image.dwt_levels = 1
     \/ unit.image.width = 16 /\ unit.image.height = 16 /\ unit.image.dwt_levels = 2
  /\ SQZ_dwt(unit.image, unit.orig) # unit.orig
  /\ unit.data = unit.orig

(***************************************************************************)
(* The caller running SQZ_color_process on two pixels, pixels to planes    *)
(* (read = 1) and planes back to pixels (read = 0)                         *)
(***************************************************************************)
\* the values tried for R, G and B; every value of 0..255 is tried as a gray
ColorValues == {0, 1, 2, 63, 127, 128, 129, 200, 254, 255}

\* the memory holding the bytes of a tuple, from offset 0
Memory(t) == Array([i \in 0..(Len(t) - 1) |-> t[i + 1]])

\* a 2x1 image of a colour mode
TwoPixels(color_mode) ==
  Descriptor(color_mode, SQZ_SCAN_ORDER_RASTER, 2, 1, 1, SQZ_number_of_planes[color_mode], 0)

\* the caller's pixels and the zeroed planes of SQZ_common_init_context
ColorStart ==
  /\ unit = NoUnit
  /\ \/ \E p \in 0..255 :
          unit' = [of |-> "color", phase |-> "start",
                   image |-> TwoPixels(SQZ_COLOR_MODE_GRAYSCALE),
                   src |-> Memory(<<p, 255 - p>>), data |-> Bytes(2, 0),
                   out |-> Bytes(2, Stale)]
     \/ \E R \in ColorValues, G \in ColorValues, B \in ColorValues :
          unit' = [of |-> "color", phase |-> "start",
                   image |-> TwoPixels(SQZ_COLOR_MODE_YCOCG_R),
                   src |-> Memory(<<R, G, B, B, R, G>>), data |-> Bytes(6, 0),
                   out |-> Bytes(6, Stale)]
  /\ UNCHANGED codecVars

\* SQZ_color_process(&ctx, source, 1)
ColorRead ==
  /\ unit.of = "color"
  /\ unit.phase = "start"
  /\ unit' = [unit EXCEPT !.phase = "planes",
                          !.data = SQZ_color_process_read(unit.image, @, unit.src)]
  /\ UNCHANGED codecVars

\* SQZ_color_process(&ctx, dest, 0)
ColorWrite ==
  /\ unit.of = "color"
  /\ unit.phase = "planes"
  /\ unit' = [unit EXCEPT !.phase = "pixels",
                          !.out = SQZ_color_process_write(unit.image, unit.data, @)]
  /\ UNCHANGED codecVars

NextColor ==
  \/ ColorStart
  \/ ColorRead
  \/ ColorWrite

SpecColor == Init /\ [][NextColor]_vars

\* the value the inverse transform computes for byte i of the pixels, before
\* the clip to 0..255
Unclipped(i) ==
  IF unit.image.color_mode = SQZ_COLOR_MODE_GRAYSCALE
    THEN ToS16(unit.data[i] + SQZ_COLOR_8BPC_LEVEL_OFFSET)
    ELSE YCoCgInverseAt(unit.data, 2, i \div 3, i % 3)

\* C18: in Grayscale a pixel p of 0..255 becomes the coefficient p - 128 and
\* comes back as p; in YCoCg-R the forward transform followed by the inverse
\* gives back (R, G, B) for all values of 0..255, and the clip changes none
\* of the values.
C18_ReversibleColour ==
  /\ (unit.of = "color" /\ unit.phase # "start"
        /\ unit.image.color_mode = SQZ_COLOR_MODE_GRAYSCALE)
       => \A i \in DOMAIN unit.src : unit.data[i] = unit.src[i] - 128
  /\ (unit.of = "color" /\ unit.phase = "pixels")
       => /\ unit.out = unit.src
          /\ \A i \in DOMAIN unit.src : Unclipped(i) = unit.src[i]

\* C18 witness: the pixels (255, 0, 254) and (254, 255, 0) have been through
\* YCoCg-R and back, Co being 1 and 254.
C18_Witness ==
  /\ unit.of = "color" /\ unit.phase = "pixels"
  /\ unit.image.color_mode = SQZ_COLOR_MODE_YCOCG_R
  /\ unit.src = Memory(<<255, 0, 254, 254, 255, 0>>)
  /\ unit.data[2] = 1 /\ unit.data[3] = 254
  /\ unit.out = unit.src

(***************************************************************************)
(* Heap memory.  SpecHeap follows SQZ_encode and SQZ_decode through every  *)
(* malloc, calloc and free they reach, each allocation succeeding or       *)
(* failing as the caller's memory allows.  What the coded bits are is left *)
(* out: the number of bitplanes of the subbands and whether a bitplane     *)
(* task returns 0 are inputs.                                              *)
(***************************************************************************)
\* the bitplanes a subband can start with
MaxBitplane == 2

\* a pointer variable: ptr is "null", "live" (points to a block not yet
\* freed) or "freed"; allocated and freed count the blocks it was given and
\* the calls of free on a block, twice tells of a free of a freed block
NullPointer == [ptr |-> "null", allocated |-> 0, freed |-> 0, twice |-> FALSE]

\* p = malloc(...) or p = calloc(...); it returns NULL when ok is FALSE
malloc(p, ok) ==
  IF ok THEN [p EXCEPT !.ptr = "live", !.allocated = @ + 1] ELSE [p EXCEPT !.ptr = "null"]

\* free(p)
free(p) ==
  CASE p.ptr = "null" -> p
    [] p.ptr = "live" -> [p EXCEPT !.ptr = "freed", !.freed = @ + 1]
    [] p.ptr = "freed" -> [p EXCEPT !.freed = @ + 1, !.twice = TRUE]

\* u is the unit record: data is ctx->data, nodes[k] is band->cache.nodes of
\* subband k
SQZ_common_free_context(u) ==
  [u EXCEPT !.data = free(@), !.nodes = [k \in BandKeys(u.image) |-> free(u.nodes[k])]]

\* the call has returned r
HeapReturn(u, r) == [u EXCEPT !.pc = "returned", !.result = r]

\* SQZ_context_t ctx = { 0 } with ctx.image and ctx.buffer as they are when
\* SQZ_common_init_context is called
HeapContext(decoding, image, buffer, depth) ==
  [of |-> "heap", pc |-> "context", decoding |-> decoding, image |-> image,
   buffer |-> buffer, depth |-> depth, result |-> NO_RESULT,
   data |-> NullPointer, nodes |-> [k \in BandKeys(image) |-> NullPointer],
   scratch |-> NullPointer, workspace |-> NullPointer, scan |-> "null",
   sched |-> ScheduleLocals(image), bitplane |-> [k \in BandKeys(image) |-> 0]]

\* a call that returned r before SQZ_common_init_context
HeapRefused(decoding, r) ==
  HeapReturn(HeapContext(decoding, [ZeroDescriptor EXCEPT !.dwt_levels = 1, !.num_planes = 1],
                         SQZ_bit_buffer_init(NoBuffer, 0), 0), r)

\* what SQZ_encode and SQZ_decode do with the result r of SQZ_schedule_task
ScheduleReturned(u, r) ==
  IF r # SQZ_RESULT_OK THEN HeapReturn(SQZ_common_free_context(u), r)
  ELSE IF u.decoding THEN [u EXCEPT !.pc = "reconstruct"]
  ELSE HeapReturn(SQZ_common_free_context(u), SQZ_RESULT_OK)

\* free(scan.workspace); return r; in SQZ_schedule_task
ScheduleReturn(u, r) == ScheduleReturned([u EXCEPT !.workspace = free(@)], r)

\* SQZ_schedule_task up to the first turn of its for (;;) loop
ScheduleTaskEnter(u) ==
  IF SQZ_bit_buffer_eob(u.buffer) THEN ScheduleReturn(u, SQZ_RESULT_OK)
  ELSE [u EXCEPT !.pc = "schedule", !.sched.done = 1]

\* SQZ_common_init_context and what follows it up to the next allocation;
\* ok tells whether calloc gave ctx->data
HeapInitContext(u, ok) ==
  IF ~ok THEN HeapReturn(SQZ_common_free_context([u EXCEPT !.data = malloc(@, FALSE)]),
                         SQZ_OUT_OF_MEMORY)
  ELSE IF u.decoding THEN ScheduleTaskEnter([u EXCEPT !.data = malloc(@, TRUE)])
  ELSE [u EXCEPT !.data = malloc(@, TRUE), !.pc = "transform"]

\* SQZ_scan_init(&scan, band) for a scan context of u's scan order: raster has
\* no workspace, the others allocate theirs when there is none; ok tells
\* whether malloc gave it.  The status returned is not looked at.
HeapScanInit(u, ok) ==
  IF u.image.scan_order = SQZ_SCAN_ORDER_RASTER THEN [u EXCEPT !.scan = "scan"]
  ELSE IF u.workspace.ptr # "null" THEN [u EXCEPT !.scan = "scan"]
  ELSE IF ok THEN [u EXCEPT !.workspace = malloc(free(@), TRUE), !.scan = "scan"]
  ELSE [u EXCEPT !.workspace = malloc(free(@), FALSE)]

\* the index bookkeeping of SQZ_schedule_task after a subband, ++round and the
\* while test after a break (the bit buffer is not at its end here: the task
\* before would have returned 0)
HeapAdvance(u, done) ==
  LET Left(nx) ==
        IF ~nx.brk THEN [u EXCEPT !.sched = nx.sched]
        ELSE IF nx.sched.done = 0
          THEN [u EXCEPT !.sched = [nx.sched EXCEPT !.round = @ + 1, !.done = 1]]
        ELSE ScheduleReturn([u EXCEPT !.sched = [nx.sched EXCEPT !.round = @ + 1]],
                            SQZ_RESULT_OK)
  IN Left(ScheduleNext(u.image, [u.sched EXCEPT !.done = BitAnd(@, IF done THEN 1 ELSE 0)]))

\* task(band, buffer): it returns 0 when ok is FALSE
HeapTask(u, key, ok) ==
  IF ~ok THEN ScheduleReturn(u, SQZ_RESULT_OK)
  ELSE HeapAdvance([u EXCEPT !.bitplane[key] = @ - (IF @ > 0 THEN 1 ELSE 0)],
                   u.bitplane[key] <= 1)

\* init(band, &scan, buffer) and the task after it: SQZ_node_cache_init gets
\* its nodes when arena is TRUE, and the scan function is called through
\* scan_ctx->scan, a null pointer when SQZ_scan_init failed
HeapInitSubband(u, key, arena, ok) ==
  IF ~arena THEN ScheduleReturn([u EXCEPT !.nodes[key] = malloc(@, FALSE)], SQZ_OUT_OF_MEMORY)
  ELSE IF u.scan = "null" THEN [u EXCEPT !.nodes[key] = malloc(@, TRUE), !.pc = "fault"]
  ELSE HeapTask([u EXCEPT !.nodes[key] = malloc(@, TRUE), !.bitplane[key] = u.depth], key, ok)

\* one turn of the for (;;) loop of SQZ_schedule_task
ScheduleTaskVisit(u, ws, arena, ok) ==
  LET key == <<u.sched.plane, u.sched.level, u.sched.orientation>>
      Band(round) ==
        IF u.sched.round < round \/ (u.sched.round > round /\ u.bitplane[key] = 0)
          THEN HeapAdvance(u, u.sched.round > round)
        ELSE IF round = u.sched.round
          THEN HeapInitSubband(HeapScanInit(u, ws), key, arena, ok)
        ELSE HeapTask(u, key, ok)
  IN Band(InitBand(u.image, key[1], key[2], key[3]).round)

\* SQZ_dwt or SQZ_idwt: ok tells whether malloc gave the scratch row
HeapScratch(u, ok) ==
  IF ~ok THEN HeapReturn(SQZ_common_free_context([u EXCEPT !.scratch = malloc(@, FALSE)]),
                         SQZ_OUT_OF_MEMORY)
  ELSE IF u.decoding
    THEN HeapReturn(SQZ_common_free_context([u EXCEPT !.scratch = free(malloc(@, TRUE))]),
                    SQZ_RESULT_OK)
  ELSE ScheduleTaskEnter([u EXCEPT !.scratch = free(malloc(@, TRUE))])

\* the images of these calls
HeapWidths == {0, 16}
HeapLevels == {1, 2}
HeapModes == {SQZ_COLOR_MODE_GRAYSCALE, SQZ_COLOR_MODE_YCOCG_R}
HeapOrders == {SQZ_SCAN_ORDER_RASTER, SQZ_SCAN_ORDER_SNAKE, SQZ_SCAN_ORDER_MORTON,
               SQZ_SCAN_ORDER_HILBERT}
\* the budgets of SQZ_encode and the stream lengths of SQZ_decode
HeapSizes == {3, SQZ_HEADER_SIZE, SQZ_HEADER_SIZE + 1, 64}

\* SQZ_encode from its entry to the return of SQZ_common_init_context
HeapEncode ==
  /\ unit.of = "none"
  /\ \E w \in HeapWidths, cm \in HeapModes, so \in HeapOrders, lv \in HeapLevels,
        ss \in {0, 1}, b \in HeapSizes, depth \in 0..MaxBitplane, ok \in BOOLEAN :
       \E v \in {SQZ_validate_input(Descriptor(cm, so, w, 16, lv, 0, ss), 0)} :
         IF v.result # SQZ_RESULT_OK THEN unit' = HeapRefused(FALSE, v.result)
         ELSE \E h \in {SQZ_encode_header(v.descriptor, SQZ_bit_buffer_init(Bytes(b, 0), b))} :
                IF ~h.ok THEN unit' = HeapRefused(FALSE, SQZ_BUFFER_TOO_SMALL)
                ELSE unit' = HeapInitContext(
                               HeapContext(FALSE, v.descriptor, h.buf, depth), ok)
  /\ UNCHANGED codecVars

\* SQZ_decode from its entry to the first turn of the scheduler's loop; room
\* is *dest_size, and dest is not NULL
HeapDecode ==
  /\ unit.of = "none"
  /\ \E w \in HeapWidths \ {0}, cm \in HeapModes, so \in HeapOrders, lv \in HeapLevels \cup {8},
        ss \in {0, 1}, n \in HeapSizes, room \in {0, 16 * 16 * 3},
        depth \in 0..MaxBitplane, ok \in BOOLEAN :
       \E h \in {SQZ_decode_header(ZeroDescriptor,
                   SQZ_bit_buffer_init(
                     Crafted(HeaderBytes(SQZ_HEADER_MAGIC, w, 16, cm, lv, so, ss), n, 0), n),
                   0)} :
         IF ~h.ok THEN unit' = HeapRefused(TRUE, SQZ_INVALID_PARAMETER)
         ELSE \E v \in {SQZ_validate_input(h.descriptor, 1)} :
                IF v.result # SQZ_RESULT_OK THEN unit' = HeapRefused(TRUE, v.result)
                ELSE IF ULt(room, h.descriptor.width * h.descriptor.height
                                  * h.descriptor.num_planes)
                  THEN unit' = HeapRefused(TRUE, SQZ_BUFFER_TOO_SMALL)
                ELSE unit' = HeapInitContext(
                               HeapContext(TRUE, h.descriptor, h.buf, depth), ok)
  /\ UNCHANGED codecVars

\* SQZ_dwt inside SQZ_encode, up to the first turn of the scheduler's loop
HeapTransform ==
  /\ unit.of = "heap"
  /\ unit.pc = "transform"
  /\ \E ok \in BOOLEAN : unit' = HeapScratch(unit, ok)
  /\ UNCHANGED codecVars

\* one subband visit of SQZ_schedule_task; the visit that ends the scheduler
\* is followed by the caller's return or, in SQZ_decode, by the inverse transform
HeapVisit ==
  /\ unit.of = "heap"
  /\ unit.pc = "schedule"
  /\ \E ws \in BOOLEAN, arena \in BOOLEAN, ok \in BOOLEAN :
       unit' = ScheduleTaskVisit(unit, ws, arena, ok)
  /\ UNCHANGED codecVars

\* SQZ_idwt inside SQZ_decode and the return after it
HeapReconstruct ==
  /\ unit.of = "heap"
  /\ unit.pc = "reconstruct"
  /\ \E ok \in BOOLEAN : unit' = HeapScratch(unit, ok)
  /\ UNCHANGED codecVars

NextHeap ==
  \/ HeapEncode
  \/ HeapDecode
  \/ HeapTransform
  \/ HeapVisit
  \/ HeapReconstruct

SpecHeap == Init /\ [][NextHeap]_vars

\* the block a pointer was given has been freed, once
Released(p) == p.ptr # "live" /\ p.freed = p.allocated /\ ~p.twice

\* nothing the call allocated is left, and nothing was freed twice
AllReleased ==
  /\ Released(unit.data)
  /\ Released(unit.scratch)
  /\ Released(unit.workspace)
  /\ \A k \in DOMAIN unit.nodes : Released(unit.nodes[k])

\* the call is over: it returned, or the process was stopped in it
HeapCallOver == unit.of = "heap" /\ unit.pc \in {"returned", "fault"}

\* C19: every call of SQZ_encode and SQZ_decode comes to a return, the calls
\* in which an allocation fails too, and by then the coefficient buffer, every
\* node arena allocated, the scan workspace and the transform's scratch row
\* have each been freed exactly once
C19_ResourceRelease == HeapCallOver => unit.pc = "returned" /\ AllReleased

\* C19: a call that does return has freed, exactly once, each block it allocated
C19_ReleasedOnReturn == unit.of = "heap" /\ unit.pc = "returned" => AllReleased

\* C19: a call returned SQZ_OUT_OF_MEMORY from the scheduler after it had
\* allocated the coefficient buffer, a scan workspace and a node arena
C19_Witness ==
  /\ unit.of = "heap"
  /\ unit.pc = "returned"
  /\ unit.result = SQZ_OUT_OF_MEMORY
  /\ unit.data.allocated = 1
  /\ unit.workspace.allocated = 1
  /\ \E k \in DOMAIN unit.nodes : unit.nodes[k].allocated = 1

(***************************************************************************)
(* The bit buffer on its own.  SpecBits calls the five functions in any    *)
(* order on a small piece of memory that has Guard more bytes after the    *)
(* buffer's end, MaxCalls calls after each init.                            *)
(***************************************************************************)
\* the largest capacity handed to SQZ_bit_buffer_init
MaxCapacity == 3
\* the calls made on a buffer after its init
MaxCalls == 4
\* what the memory holds before the first write
BitFills == {0, 165}
\* the widths and the values of SQZ_bit_buffer_write_bits and _read_bits
BitWidths == {0, 4, 8, 9, 16}
BitValues == {1, 23130}

\* the offsets at which a call of SQZ_bit_buffer_write_bits or _read_bits
\* dereferences buffer->ptr (width 1: of _write_bit or _read_bit)
RECURSIVE BytesTouched(_, _)
BytesTouched(buffer, width) ==
  IF SQZ_bit_buffer_eob(buffer) THEN {}
  ELSE IF (SQZ_BIT_BUFFER_MSB + 1) - buffer.index >= width THEN {buffer.ptr}
  ELSE {buffer.ptr} \cup BytesTouched([buffer EXCEPT !.ptr = @ + 1, !.index = 0],
                                      width - ((SQZ_BIT_BUFFER_MSB + 1) - buffer.index))

\* the unit after a call: buf is the buffer, last what the call was and what
\* it returned (full: ptr was at eob when it was made), touched the offsets
\* dereferenced since the init
BitsCalled(op, buf, ok, value, width) ==
  [of |-> "bits", fill |-> unit.fill, buf |-> buf, calls |-> unit.calls + 1,
   last |-> [op |-> op, ok |-> ok, value |-> value, full |-> unit.buf.ptr = unit.buf.eob],
   touched |-> unit.touched \cup BytesTouched(unit.buf, width)]

\* SQZ_bit_buffer_init(&buffer, memory, capacity)
BitsInit ==
  /\ unit.of \in {"none", "bits"}
  /\ \E capacity \in 0..MaxCapacity, fill \in BitFills :
       unit' = [of |-> "bits", fill |-> fill, calls |-> 0,
                buf |-> SQZ_bit_buffer_init(Bytes(capacity + Guard, fill), capacity),
                last |-> [op |-> "init", ok |-> TRUE, value |-> 0, full |-> FALSE],
                touched |-> {}]
  /\ UNCHANGED codecVars

\* SQZ_bit_buffer_write_bit(&buffer, bit)
BitsWriteBit ==
  /\ unit.of = "bits"
  /\ unit.calls < MaxCalls
  /\ \E bit \in {0, 1} :
       \E r \in {SQZ_bit_buffer_write_bit(unit.buf, bit)} :
         unit' = BitsCalled("write", r.buf, r.ok, 0, 1)
  /\ UNCHANGED codecVars

\* SQZ_bit_buffer_write_bits(&buffer, bits, width)
BitsWriteBits ==
  /\ unit.of = "bits"
  /\ unit.calls < MaxCalls
  /\ \E bits \in BitValues, width \in BitWidths :
       \E r \in {SQZ_bit_buffer_write_bits(unit.buf, bits, width)} :
         unit' = BitsCalled("write", r.buf, r.ok, 0, width)
  /\ UNCHANGED codecVars

\* SQZ_bit_buffer_read_bit(&buffer)
BitsReadBit ==
  /\ unit.of = "bits"
  /\ unit.calls < MaxCalls
  /\ \E r \in {SQZ_bit_buffer_read_bit(unit.buf)} :
       unit' = BitsCalled("read", r.buf, TRUE, r.bit, 1)
  /\ UNCHANGED codecVars

\* SQZ_bit_buffer_read_bits(&buffer, width)
BitsReadBits ==
  /\ unit.of = "bits"
  /\ unit.calls < MaxCalls
  /\ \E width \in BitWidths :
       \E r \in {SQZ_bit_buffer_read_bits(unit.buf, width)} :
         unit' = BitsCalled("read", r.buf, TRUE, r.bits, width)
  /\ UNCHANGED codecVars

NextBits ==
  \/ BitsInit
  \/ BitsWriteBit
  \/ BitsWriteBits
  \/ BitsReadBit
  \/ BitsReadBits

SpecBits == Init /\ [][NextBits]_vars

\* the bytes after the buffer's end hold what they held at the init
GuardIntact ==
  \A i \in unit.buf.eob..(unit.buf.eob + Guard - 1) : unit.buf.data[i] = unit.fill

\* C20: whatever the calls were, ptr lies between the buffer's first byte
\* and its end and index between 0 and 7; a write made with ptr at the end
\* returned 0 and a read made there a negative value; and no byte at or after
\* the end was read or written
C20_BitBufferBounds ==
  unit.of = "bits" =>
    /\ 0 <= unit.buf.ptr /\ unit.buf.ptr <= unit.buf.eob
    /\ 0 <= unit.buf.index /\ unit.buf.index < 8
    /\ unit.last.full /\ unit.last.op = "write" => ~unit.last.ok
    /\ unit.last.full /\ unit.last.op = "read" => unit.last.value < 0
    /\ \A i \in unit.touched : i < unit.buf.eob
    /\ GuardIntact

\* C20: a buffer of two bytes or more was used up to its last byte, and a
\* read made at its end has returned -1
C20_Witness ==
  /\ unit.of = "bits"
  /\ unit.buf.eob >= 2
  /\ unit.touched = 0..(unit.buf.eob - 1)
  /\ unit.last.op = "read"
  /\ unit.last.full
  /\ unit.last.value = -1

(***************************************************************************)
(* Writing and reading back.  SpecPack writes values into a zeroed buffer, *)
(* as many as fit it, and then reads them back with a second cursor on the *)
(* same memory.                                                            *)
(***************************************************************************)
\* the values written into one buffer
MaxWrites == 3
\* the capacities of the buffer
PackCapacities == {1, 5, 12}
\* the widths and the values of SQZ_bit_buffer_write_bits (a uint32_t value
\* of 2^31 or more is held as a negative integer)
PackWidths == {0, 1, 8, 9, 20, 32}
PackValues == {1515870810, -1515870811}

\* value & ((1 << width) - 1) as a uint32_t, the whole value when width is 32
Masked(value, width) == IF width = 32 THEN value ELSE value % Pow2(width)

\* bit k of a uint32_t value
ValueBit(value, k) == IF k = 31 THEN (IF value < 0 THEN 1 ELSE 0) ELSE BitAt(value, k)

\* the bits of a value of the given width, the most significant first
ValueBits(value, width) == [n \in 1..width |-> ValueBit(value, width - n)]

\* the unit after a write: item is <<call, value, width>>
PackWritten(item, r) ==
  [unit EXCEPT !.buf = r.buf, !.ok = Append(@, r.ok), !.log = Append(@, item),
               !.bits = @ \o ValueBits(item[2], item[3])]

\* SQZ_bit_buffer_init on zeroed memory
PackStart ==
  /\ unit.of = "none"
  /\ \E capacity \in PackCapacities :
       unit' = [of |-> "pack", phase |-> "write",
                buf |-> SQZ_bit_buffer_init(Bytes(capacity, 0), capacity),
                log |-> <<>>, ok |-> <<>>, bits |-> <<>>, got |-> <<>>]
  /\ UNCHANGED codecVars

\* SQZ_bit_buffer_write_bit(&buffer, bit), the buffer having room for the bit
PackWriteBit ==
  /\ unit.of = "pack"
  /\ unit.phase = "write"
  /\ Len(unit.log) < MaxWrites
  /\ Len(unit.bits) + 1 <= 8 * unit.buf.eob
  /\ \E bit \in {0, 1} :
       unit' = PackWritten(<<"bit", bit, 1>>, SQZ_bit_buffer_write_bit(unit.buf, bit))
  /\ UNCHANGED codecVars

\* SQZ_bit_buffer_write_bits(&buffer, value, width), the buffer having room
\* for width bits
PackWriteBits ==
  /\ unit.of = "pack"
  /\ unit.phase = "write"
  /\ Len(unit.log) < MaxWrites
  /\ \E value \in PackValues, width \in PackWidths :
       /\ Len(unit.bits) + width <= 8 * unit.buf.eob
       /\ unit' = PackWritten(<<"bits", value, width>>,
                              SQZ_bit_buffer_write_bits(unit.buf, value, width))
  /\ UNCHANGED codecVars

\* SQZ_bit_buffer_init of a second cursor on the memory written
PackRewind ==
  /\ unit.of = "pack"
  /\ unit.phase = "write"
  /\ unit.log # <<>>
  /\ unit' = [unit EXCEPT !.phase = "read",
                          !.buf = SQZ_bit_buffer_init(unit.buf.data, unit.buf.eob)]
  /\ UNCHANGED codecVars

\* SQZ_bit_buffer_read_bit(&buffer) where the writer called _write_bit
PackReadBit ==
  /\ unit.of = "pack"
  /\ unit.phase = "read"
  /\ Len(unit.got) < Len(unit.log)
  /\ unit.log[Len(unit.got) + 1][1] = "bit"
  /\ \E r \in {SQZ_bit_buffer_read_bit(unit.buf)} :
       unit' = [unit EXCEPT !.buf = r.buf, !.got = Append(@, r.bit)]
  /\ UNCHANGED codecVars

\* SQZ_bit_buffer_read_bits(&buffer, width) where the writer called
\* _write_bits with this width
PackReadBits ==
  /\ unit.of = "pack"
  /\ unit.phase = "read"
  /\ Len(unit.got) < Len(unit.log)
  /\ unit.log[Len(unit.got) + 1][1] = "bits"
  /\ \E r \in {SQZ_bit_buffer_read_bits(unit.buf, unit.log[Len(unit.got) + 1][3])} :
       unit' = [unit EXCEPT !.buf = r.buf, !.got = Append(@, r.bits)]
  /\ UNCHANGED codecVars

NextPack ==
  \/ PackStart
  \/ PackWriteBit
  \/ PackWriteBits
  \/ PackRewind
  \/ PackReadBit
  \/ PackReadBits

SpecPack == Init /\ [][NextPack]_vars

\* the bit of the memory at position p of the stream, the first position
\* being the most significant bit of the first byte
StreamBit(p) == BitAt(unit.buf.data[p \div 8], SQZ_BIT_BUFFER_MSB - (p % 8))

\* the values read so far are the values written, each masked to its width,
\* the memory holds the bits written most significant bit first, and while
\* writing bits_used() is the number of bits written
PackedAndReadBack ==
  /\ \A n \in 1..Len(unit.got) : unit.got[n] = Masked(unit.log[n][2], unit.log[n][3])
  /\ \A p \in 0..(Len(unit.bits) - 1) : StreamBit(p) = unit.bits[p + 1]
  /\ unit.phase = "write" =>
       /\ SQZ_bit_buffer_bits_used(unit.buf) = unit.buf.ptr * 8 + unit.buf.index
       /\ SQZ_bit_buffer_bits_used(unit.buf) = Len(unit.bits)

Scheduling ==
  \/ pc \in {"encode", "decode", "round", "reconstruct"}
  \/ pc = "encoded" /\ result = SQZ_RESULT_OK
  \/ pc = "decoded" /\ status = SQZ_RESULT_OK

\* no subband twice in a list of turns
OnceEach(turns) == \A m, n \in 1..Len(turns) : turns[m] = turns[n] => m = n

\* the turns of plane 0 come before those of the other planes
LumaFirst(turns) == \A m, n \in 1..Len(turns) : turns[m][1] = 0 /\ turns[n][1] > 0 => m < n

\* C22: in the round under way the scheduler has come to no subband twice,
\* only to subbands that exist, and to those of plane 0 before those of planes
\* 1 and 2; a round that ended had come to every subband that exists; and no
\* subband has had more than one bitplane task in the round
C22_RoundTraversal ==
  Scheduling =>
    /\ OnceEach(sched.seen)
    /\ LumaFirst(sched.seen)
    /\ \A n \in 1..Len(sched.seen) : sched.seen[n] \in BandKeys(ctx.image)
    /\ OnceEach(sched.ran)
    /\ sched.round > 0 =>
         /\ OnceEach(sched.whole)
         /\ LumaFirst(sched.whole)
         /\ {sched.whole[n] : n \in 1..Len(sched.whole)} = BandKeys(ctx.image)

\* C22: the second round of a three-plane image has ended, twelve subbands
\* seen, and tasks of the next round have been called
C22_Witness ==
  /\ Scheduling
  /\ ctx.image.num_planes = 3
  /\ sched.round > 1
  /\ Len(sched.whole) = 12
  /\ Len(sched.ran) > 0

\* the subbands init was called for
Inited == {sched.inits[n][1] : n \in 1..Len(sched.inits)}

\* C23: init has been called at most once for a subband, in the round that
\* is the subband's schedule round, and for every subband whose schedule
\* round has ended; the subbands that have their node arena are those init
\* was called for; and no task has been called for a subband in a round
\* before its schedule round
C23_LazyInitGating ==
  Scheduling =>
    /\ \A m, n \in 1..Len(sched.inits) : sched.inits[m][1] = sched.inits[n][1] => m = n
    /\ \A n \in 1..Len(sched.inits) : sched.inits[n][2] = ctx.band[sched.inits[n][1]].round
    /\ \A k \in BandKeys(ctx.image) :
         /\ ctx.band[k].round < sched.round => k \in Inited
         /\ Initialised(ctx.band[k]) <=> k \in Inited
    /\ \A n \in 1..Len(sched.ran) : ctx.band[sched.ran[n]].round <= sched.round

\* C23: the chroma subbands of a subsampled image, whose schedule rounds are
\* later than those of plane 0, have been initialised, after the first round
C23_Witness ==
  /\ Scheduling
  /\ ctx.image.num_planes = 3
  /\ ctx.image.subsampling = 1
  /\ \E n \in 1..Len(sched.inits) : sched.inits[n][1][1] = 2 /\ sched.inits[n][2] > 1
  /\ \E n \in 1..Len(sched.inits) : sched.inits[n][2] = 0

\* every subband has been through its schedule round by the end of round r
\* and has no bitplane left
AllDone(r) ==
  \A k \in BandKeys(ctx.image) : ctx.band[k].round <= r /\ ctx.band[k].bitplane = 0

\* SQZ_schedule_task has returned in the call under way
ScheduleOver ==
  \/ pc \in {"round", "reconstruct"}
  \/ pc = "encoded" /\ result = SQZ_RESULT_OK
  \/ pc = "decoded" /\ status = SQZ_RESULT_OK

\* where the scheduler stops: it goes on to a further round only when the
\* round before left a subband short of its schedule round or with a bitplane
\* to code; it returns at the end of a round only when none is left; and it
\* returns within a round only with the bit buffer at its end, from the turn
\* whose task found it so
StopsWhereItShould ==
  /\ pc \in {"encode", "decode"} /\ sched.seen = <<>> /\ sched.round > 0 =>
       ~AllDone(sched.round - 1)
  /\ ScheduleOver /\ sched.seen = <<>> => sched.round > 0 /\ AllDone(sched.round - 1)
  /\ ScheduleOver /\ sched.seen # <<>> =>
       /\ SQZ_bit_buffer_eob(ctx.buffer)
       /\ sched.ran # <<>>
       /\ sched.ran[Len(sched.ran)] = sched.seen[Len(sched.seen)]

\* the rounds are bounded: the round under way is at most the latest round
\* in which a subband has a bitplane to code (its schedule round when it has
\* none), or the one after it
RoundBound ==
  Scheduling =>
    \E k \in BandKeys(ctx.image) :
      sched.round <= ctx.band[k].round + Max(ctx.band[k].max_bitplane, 1)

\* a turn of the scheduler's loop returns, or ends the round, or is one more
\* turn of the round under way
TurnAdvances ==
  pc \in {"encode", "decode"} =>
    \/ pc' # pc
    \/ sched'.round = sched.round + 1
    \/ sched'.round = sched.round /\ Len(sched'.seen) = Len(sched.seen) + 1

\* C24: SQZ_schedule_task terminates: every turn of its loop is a further
\* turn of the round, the end of the round or the return, a round has no
\* more turns than there are subbands, and the rounds are bounded; it stops
\* after the first round that leaves every subband through its schedule
\* round and at bitplane 0, or else in the turn whose task met the end of
\* the bit buffer, no further subband being met
C24_SchedulerTermination ==
  /\ []StopsWhereItShould
  /\ []RoundBound
  /\ [](Scheduling => Len(sched.seen) <= Cardinality(BandKeys(ctx.image)))
  /\ [][TurnAdvances]_vars

\* C24: an encoder with room to spare has stopped after its fourth round or
\* a later one, every bitplane coded
C24_Witness ==
  /\ pc = "encoded"
  /\ result = SQZ_RESULT_OK
  /\ sched.seen = <<>>
  /\ sched.round > 3
  /\ ~SQZ_bit_buffer_eob(ctx.buffer)
  /\ \E k \in BandKeys(ctx.image) : ctx.band[k].max_bitplane > 1

(***************************************************************************)
(* Properties of the bitplane tasks.  A step of the scheduler is one turn  *)
(* of its loop; sched'.turn tells which subband the turn was for.          *)
(***************************************************************************)
\* the subband of the turn just taken, before and after the turn
TurnBefore == ctx.band[sched'.turn.key]
TurnAfter == ctx'.band[sched'.turn.key]

\* the turn called init: the subband had no node arena before it
TurnInited == ~Initialised(TurnBefore) /\ Initialised(TurnAfter)

\* the bits the turn wrote or read
TurnBits == SQZ_bit_buffer_bits_used(ctx'.buffer) - SQZ_bit_buffer_bits_used(ctx.buffer)

\* the list of a subband as positions, none before the subband is initialised
Members(band, L) == IF Initialised(band) THEN ListSeq(band, L) ELSE <<>>

\* what a turn does to the bitplane of its subband; from is the bitplane the
\* task found: max_bitplane when the turn called init
BitplaneTurn(from) ==
  /\ TurnInited => from = TurnAfter.max_bitplane
  /\ ~TurnInited => TurnAfter.max_bitplane = TurnBefore.max_bitplane
  /\ sched'.turn.ok =>
       /\ TurnAfter.bitplane = from - (IF from > 0 THEN 1 ELSE 0)
       /\ Members(TurnAfter, "NSP") = <<>>
  /\ ~sched'.turn.ok =>
       /\ TurnAfter.bitplane = from
       /\ Members(TurnAfter, "LSP") = Members(TurnBefore, "LSP")
  /\ TurnAfter.max_bitplane = 0 =>
       /\ TurnBits <= (IF TurnInited THEN 4 ELSE 0)
       /\ ~SQZ_bit_buffer_eob(ctx'.buffer) => TurnBits = (IF TurnInited THEN 4 ELSE 0)

\* a turn of the scheduler, as the bitplane of the subbands sees it
BitplaneStep ==
  pc \in {"encode", "decode"} =>
    /\ \A k \in BandKeys(ctx.image) :
         k # sched'.turn.key \/ sched'.turn.skip => ctx'.band[k] = ctx.band[k]
    /\ ~sched'.turn.skip =>
         BitplaneTurn(IF TurnInited THEN TurnAfter.max_bitplane ELSE TurnBefore.bitplane)

\* C25: the bitplane of a subband starts at max_bitplane; a task that went
\* through its sorting and its refinement pass leaves it one lower (at 0 if
\* it was 0) with NSP merged, a task of which a pass failed leaves it and LSP
\* as they were; no other turn changes it; in the encoder it stays between 0
\* and max_bitplane; and a subband with max_bitplane 0 accounts for the 4
\* bits of its header only
C25_BitplaneCursor ==
  /\ [](pc \in {"encode", "encoded"} =>
          \A k \in DOMAIN ctx.band :
            0 <= ctx.band[k].bitplane /\ ctx.band[k].bitplane <= ctx.band[k].max_bitplane)
  /\ [][BitplaneStep]_vars

\* C25: a decoder's subband that started at bitplane 3 or above is at
\* bitplane 1 with members in LSP, and another has max_bitplane 0
C25_Witness ==
  /\ pc = "decode"
  /\ \E k \in DOMAIN ctx.band :
       /\ ctx.band[k].max_bitplane >= 3
       /\ ctx.band[k].bitplane = 1
       /\ Members(ctx.band[k], "LSP") # <<>>
  /\ \E k \in DOMAIN ctx.band : Initialised(ctx.band[k]) /\ ctx.band[k].max_bitplane = 0

\* the largest coefficient of a subband, in the sign-magnitude form the
\* encoder codes
LargestCoefficient(band) ==
  LET values == {ctx.data[BandIndex(band, x, y)] :
                   x \in 0..(band.width - 1), y \in 0..(band.height - 1)}
  IN CHOOSE v \in values : \A w \in values : w <= v

\* the number made of the n bits of the memory from stream position p on
BitsAt(data, p, n) ==
  LET bit(q) == BitAt(data[q \div 8], SQZ_BIT_BUFFER_MSB - (q % 8))
      RECURSIVE value(_)
      value(k) == IF k = 0 THEN 0 ELSE 2 * value(k - 1) + bit(p + k - 1)
  IN value(n)

\* the turn is the encoder's init of a subband, with room for the 4 bits
EncoderInited ==
  /\ pc = "encode"
  /\ ~sched'.turn.skip
  /\ TurnInited
  /\ SQZ_bit_buffer_bits_used(ctx.buffer) + 4 <= 8 * ctx.buffer.eob

\* the 4 bits the encoder's init wrote are max_bitplane, and max_bitplane is m
HeaderIs(m) ==
  /\ TurnAfter.max_bitplane = m
  /\ BitsAt(ctx'.buffer.data, SQZ_bit_buffer_bits_used(ctx.buffer), 4) = m

\* the magnitude of the largest coefficient of the turn's subband
TurnMagnitude == LargestCoefficient(TurnAfter) \div 2

\* the number of bits of n: 0 for 0, floor(log2(n)) + 1 otherwise
BitsOf(n) == IF n = 0 THEN 0 ELSE Log2Floor(n) + 1

\* C26: the max_bitplane the encoder writes for a subband is the number of
\* bits of max_coef >> 1, that is floor(log2(max_coef >> 1)) + 1, or 0 when
\* max_coef >> 1 is 0; it is 14 at most and is what the 4-bit field holds
C26_MaxBitplane ==
  [][EncoderInited => HeaderIs(BitsOf(TurnMagnitude)) /\ TurnAfter.max_bitplane \in 0..14]_vars

\* C26: the encoder has initialised a subband whose largest magnitude is 4
\* or more, written as max_bitplane 3 or more, and one of magnitude 1,
\* written as 1
C26_Witness ==
  /\ pc = "encode"
  /\ \E k \in DOMAIN ctx.band :
       /\ Initialised(ctx.band[k])
       /\ ctx.band[k].max_bitplane >= 3
       /\ LargestCoefficient(ctx.band[k]) \div 2 >= 4
  /\ \E k \in DOMAIN ctx.band :
       /\ Initialised(ctx.band[k])
       /\ ctx.band[k].max_bitplane = 1
       /\ LargestCoefficient(ctx.band[k]) \div 2 = 1

\* C26: the max_bitplane the encoder writes for a subband is
\* floor(log2(max_coef >> 1)), 0 when max_coef >> 1 is 0
C26_MaxBitplaneFloorLog2 ==
  [][EncoderInited =>
       HeaderIs(IF TurnMagnitude = 0 THEN 0 ELSE Log2Floor(TurnMagnitude))]_vars

\* the bitplane the task of the turn found: max_bitplane when the turn
\* called init
TurnBitplane == IF TurnInited THEN TurnAfter.max_bitplane ELSE TurnBefore.bitplane

\* LIP as the sorting pass of the turn found it: every position of the
\* subband in scan order when the turn called init
TurnLIP ==
  IF TurnInited
    THEN ScanPositions(ctx.image.scan_order, TurnAfter.width, TurnAfter.height)
    ELSE Members(TurnBefore, "LIP")

\* LSP as the task of the turn found it
TurnLSP == Members(TurnBefore, "LSP")

\* the stream position at which the task of the turn started
TurnStart == SQZ_bit_buffer_bits_used(ctx.buffer) + (IF TurnInited THEN 4 ELSE 0)

\* the encoder's coefficient at a position of the turn's subband
TurnCoefficient(p) == ctx.data[BandIndex(TurnAfter, p[1], p[2])]

\* the coefficient at p has the bit of the turn's bitplane set
TurnHit(p) == BitAt(TurnCoefficient(p), TurnBitplane) = 1

\* the bits of a WDR run: the bits of the run below its leading 1, from the
\* most significant one, each after a 0
RECURSIVE WdrCode(_)
WdrCode(run) == IF run <= 1 THEN <<>> ELSE WdrCode(run \div 2) \o <<0, run % 2>>

\* the 1 bit that ends the run of the hit before, if there is one
RunEnd(last) == IF last > 0 THEN <<1>> ELSE <<>>

\* the bits of the sorting pass over lip from its i-th entry on, last being
\* the index of the hit before
RECURSIVE SortCode(_, _, _)
SortCode(lip, i, last) ==
  IF i > Len(lip)
    THEN RunEnd(last) \o <<1>> \o WdrCode(Len(lip) - last + 1) \o <<1>>
  ELSE IF TurnHit(lip[i])
    THEN RunEnd(last) \o <<TurnCoefficient(lip[i]) % 2>> \o WdrCode(i - last)
           \o SortCode(lip, i + 1, i)
  ELSE SortCode(lip, i + 1, last)

\* the entries of a list of positions that are hits, or are not, in order
Hits(lip) == SelectSeq(lip, TurnHit)
Misses(lip) == SelectSeq(lip, LAMBDA p : ~TurnHit(p))

\* the memory holds the bits of code from stream position p on
Holds(data, p, code) == \A j \in 1..Len(code) : BitsAt(data, p + j - 1, 1) = code[j]

\* the encoder's sorting pass has walked a LIP that is not empty, on a
\* bitplane above 0
EncoderSorted ==
  /\ pc = "encode"
  /\ ~sched'.turn.skip
  /\ TurnBitplane > 0
  /\ TurnLIP # <<>>

\* what the sorting pass of the turn did, lip being the LIP it found and
\* code the bits of its walk, for which there is room
SortedAs(lip, code) ==
  TurnStart + Len(code) <= 8 * ctx.buffer.eob =>
    /\ Holds(ctx'.buffer.data, TurnStart, code)
    /\ TurnBits >= (IF TurnInited THEN 4 ELSE 0) + Len(code)
    /\ Members(TurnAfter, "LIP") = Misses(lip)
    /\ Members(TurnAfter, "LSP") \o Members(TurnAfter, "NSP") = TurnLSP \o Hits(lip)

Range(seq) == {seq[j] : j \in 1..Len(seq)}

\* the bits of the refinement pass of the turn over lsp: the bit of the
\* turn's bitplane of each coefficient, in list order
RefineCode(lsp) == [j \in 1..Len(lsp) |-> BitAt(TurnCoefficient(lsp[j]), TurnBitplane)]

\* the bits of the sorting pass of the turn: none when LIP is empty or the
\* bitplane is 0
TurnSortCode(lip) == IF TurnBitplane > 0 /\ lip # <<>> THEN SortCode(lip, 1, 0) ELSE <<>>

\* what the encoder's task did, sort and refine being the bits of its two
\* passes, for which there is room: the refinement bits follow the sorting
\* bits and nothing follows them
EncodedAs(sort, refine) ==
  TurnStart + Len(sort) + Len(refine) <= 8 * ctx.buffer.eob =>
    /\ Holds(ctx'.buffer.data, TurnStart + Len(sort), refine)
    /\ TurnBits = (IF TurnInited THEN 4 ELSE 0) + Len(sort) + Len(refine)

\* what the decoder's task did when it went through both passes: the last
\* bits it read are one per member of lsp, in list order, each ORed into
\* the coefficient of its member at the turn's bitplane, no other
\* coefficient being touched but those of the pixels the sorting pass
\* promoted
DecodedAs(lsp, promoted) ==
  \E end \in {SQZ_bit_buffer_bits_used(ctx'.buffer) - Len(lsp)} :
    /\ end >= TurnStart
    /\ \A j \in 1..Len(lsp) :
         \E at \in {BandIndex(TurnAfter, lsp[j][1], lsp[j][2])} :
           ctx'.data[at] =
             Or16(ctx.data[at],
                  BitsAt(ctx.buffer.data, end + j - 1, 1) * BitplaneMask(TurnBitplane))
    /\ \E touched \in {{BandIndex(TurnAfter, p[1], p[2]) :
                            p \in Range(lsp) \cup Range(promoted)}} :
         \A at \in DOMAIN ctx.data : ctx'.data[at] # ctx.data[at] => at \in touched

\* the entries of lip that are not among those left, in order
Promoted(lip, left) == SelectSeq(lip, LAMBDA p : p \notin left)

\* what a task did to the lists: a bitplane gone through appends the pixels
\* promoted in it to LSP, in the order of their promotion, and empties NSP;
\* a bitplane cut short leaves them in NSP and LSP as it was
MergedAs(lsp, promoted) ==
  /\ sched'.turn.ok =>
       /\ Members(TurnAfter, "LSP") = lsp \o promoted
       /\ Members(TurnAfter, "NSP") = <<>>
  /\ ~sched'.turn.ok =>
       /\ Members(TurnAfter, "LSP") = lsp
       /\ Members(TurnAfter, "NSP") = promoted

\* a turn of the scheduler, as the refinement pass and the merge see it
RefinementStep ==
  pc \in {"encode", "decode"} /\ ~sched'.turn.skip =>
    \E lip \in {TurnLIP} : \E lsp \in {TurnLSP} :
    \E left \in {Range(Members(TurnAfter, "LIP"))} : \E promoted \in {Promoted(lip, left)} :
      /\ MergedAs(lsp, promoted)
      /\ pc = "encode" =>
           /\ EncodedAs(TurnSortCode(lip), RefineCode(lsp))
           /\ sched'.turn.ok => promoted = Hits(lip)
      /\ pc = "decode" /\ sched'.turn.ok => DecodedAs(lsp, promoted)

\* C28: the refinement pass of a bitplane emits (encoder) or consumes
\* (decoder) one bit per member of LSP, in LSP order, the bit of the
\* bitplane of its coefficient, and none for the pixels promoted in the
\* same bitplane; NSP is appended to the tail of LSP when the bitplane has
\* gone through both passes and not before, so LSP only grows at its tail,
\* by the pixels promoted in a bitplane in the order of their promotion
C28_RefinementAndMerge == [][RefinementStep]_vars

\* C28: a decoder's subband has gone through a bitplane whose refinement
\* pass read a 1 for the first member of LSP and whose sorting pass promoted
\* pixels, merged behind the members LSP had; the bitplane after it is cut
\* short, pixels staying in NSP
C28_Witness ==
  /\ pc = "round"
  /\ ~sched.turn.skip
  /\ ~sched.turn.ok
  /\ \E v \in {ctx.band[sched.turn.key]} :
       /\ v.bitplane > 0
       /\ v.bitplane + 1 < v.max_bitplane
       /\ v.LSP.length > 2
       /\ v.NSP.length > 0
       /\ \E p \in {ListSeq(v, "LSP")[1]} : \E q \in {ListSeq(v, "LSP")[v.LSP.length]} :
            /\ BitAt(ctx.data[BandIndex(v, p[1], p[2])], v.max_bitplane) = 1
            /\ BitAt(ctx.data[BandIndex(v, p[1], p[2])], v.bitplane + 1) = 1
            /\ BitAt(ctx.data[BandIndex(v, q[1], q[2])], v.max_bitplane) = 0

(***************************************************************************)
(* Properties of SQZ_decode_round_coefficients                             *)
(***************************************************************************)
\* the offsets in the coefficient array of the members of list L of the
\* subbands that satisfy Which
Offsets(L, Which(_)) ==
  UNION {{BandIndex(ctx.band[k], p[1], p[2]) : p \in Range(Members(ctx.band[k], L))} :
           k \in {j \in BandKeys(ctx.image) : Which(ctx.band[j])}}

\* the subband is one whose LSP is rounded
Rounds(band) == band.max_bitplane > 0 /\ band.bitplane >= 2

\* the coefficient at an offset after the rounding: of a subband of bitplane
\* n, the bits 1 .. n - 1 set and the other bits as they were
RoundedTo(at, n) ==
  \A b \in 0..15 :
    BitAt(ToU16(ctx'.data[at]), b)
      = IF 1 <= b /\ b < n THEN 1 ELSE BitAt(ToU16(ctx.data[at]), b)

\* what SQZ_decode_round_coefficients did, rounded being the offsets of the
\* members of LSP of the subbands that are rounded
RoundedAs(rounded) ==
  /\ \A k \in BandKeys(ctx.image) :
       Rounds(ctx.band[k]) =>
         \A p \in Range(Members(ctx.band[k], "LSP")) :
           RoundedTo(BandIndex(ctx.band[k], p[1], p[2]), ctx.band[k].bitplane)
  /\ \A at \in DOMAIN ctx.data : at \notin rounded => ctx'.data[at] = ctx.data[at]
  /\ \A at \in Offsets("NSP", LAMBDA band : TRUE) : ctx'.data[at] = ctx.data[at]
  /\ \A at \in Offsets("LIP", LAMBDA band : TRUE) : ctx'.data[at] = 0 /\ ctx.data[at] = 0
  /\ ctx'.band = ctx.band
  /\ ctx'.buffer = ctx.buffer

\* C30: SQZ_decode_round_coefficients sets the bits 1 .. bitplane - 1 (the
\* mask ((1 << bitplane) - 1) ^ 1) in the coefficient of every member of LSP
\* of every subband with max_bitplane > 0 and bitplane >= 2 and changes
\* nothing else: bit 0 and the bits from bitplane up stay, the coefficients
\* of the members of NSP stay, and those of the members of LIP are 0
C30_DecodeRounding ==
  [][pc = "round" => \E rounded \in {Offsets("LSP", Rounds)} : RoundedAs(rounded)]_vars

\* C30: the rounding is over for a stream cut in a bitplane of 3 or more: a
\* subband has members in LIP, NSP and LSP, the first member of LSP with the
\* bits 1 and 2 set by the rounding
C30_Witness ==
  /\ pc = "reconstruct"
  /\ \E k \in BandKeys(ctx.image) : \E v \in {ctx.band[k]} :
       /\ v.bitplane >= 3
       /\ v.LIP.length > 0
       /\ v.NSP.length > 0
       /\ v.LSP.length > 0
       /\ \E p \in {ListSeq(v, "LSP")[1]} :
            /\ BitAt(ToU16(ctx.data[BandIndex(v, p[1], p[2])]), 1) = 1
            /\ BitAt(ToU16(ctx.data[BandIndex(v, p[1], p[2])]), 2) = 1

(***************************************************************************)
(* Encoder and decoder side by side.  The caller encodes an image with a   *)
(* budget the encoder does not exhaust, then encodes it again while it     *)
(* decodes the bytes of the first run, one turn of SQZ_schedule_task of    *)
(* each at a time.  unit holds the context and the scheduler's locals of   *)
(* either side.                                                            *)
(***************************************************************************)
\* the images encoded with a budget that is not exhausted, and one more
\* whose stream ends with the last bit of a byte
LockConfigs ==
  {c \in Configs : c.budget = Ample(c.width, c.height, c.color_mode)}
  \cup
  {Config(8, 8, SQZ_COLOR_MODE_GRAYSCALE, SQZ_SCAN_ORDER_RASTER, 1, 0, 1, Ample(8, 8, 0))}

\* the context of SQZ_encode at the entry of SQZ_schedule_task (validation
\* and header passing for these images)
LockEncoder(c) ==
  LET Transformed(c0) ==
        [c0 EXCEPT !.data = SQZ_dwt_convert_to_sign_magnitude(
                              c0.image,
                              SQZ_dwt(c0.image,
                                      SQZ_color_process_read(c0.image, c0.data, Image(c))))]
      Headed(d, h) ==
        Transformed(SQZ_common_init_context([ZeroContext EXCEPT !.image = d,
                                                                 !.buffer = h.buf]))
      Validated(d) ==
        Headed(d, SQZ_encode_header(d, SQZ_bit_buffer_init(Bytes(c.budget + Guard, 0),
                                                           c.budget)))
  IN Validated(SQZ_validate_input(Descriptor(c.color_mode, c.scan_order, c.width, c.height,
                                             c.dwt_levels, 0, c.subsampling), 0).descriptor)

\* the context of SQZ_decode at the entry of SQZ_schedule_task, for the n
\* bytes the encoder reported
LockDecoder(bytes, n) ==
  LET Headed(h) ==
        SQZ_common_init_context([ZeroContext EXCEPT !.image = h.descriptor,
                                                    !.buffer = h.buf])
  IN Headed(SQZ_decode_header(ZeroDescriptor,
                              SQZ_bit_buffer_init(Array([i \in 0..(n - 1) |-> bytes[i]]), n),
                              1))

\* a side at the entry of SQZ_schedule_task
LockSide(context) == [ctx |-> context, sched |-> ScheduleEnter(context).sched]

\* SQZ_encode up to the first turn of the scheduler
LockStart ==
  /\ unit.of = "none"
  /\ \E c \in LockConfigs : \E c1 \in {LockEncoder(c)} :
       unit' = [of |-> "lock", phase |-> "encode", config |-> c, enc |-> LockSide(c1),
                dec |-> LockSide(c1), eret |-> FALSE, dret |-> FALSE]
  /\ UNCHANGED codecVars

\* one turn of SQZ_schedule_task inside SQZ_encode, first run
LockEncode ==
  /\ unit.of = "lock"
  /\ unit.phase = "encode"
  /\ ~unit.eret
  /\ \E v \in {ScheduleVisit(unit.enc.ctx, unit.enc.sched, FALSE)} :
       unit' = [unit EXCEPT !.enc = [ctx |-> v.ctx, sched |-> v.sched], !.eret = v.ret]
  /\ UNCHANGED codecVars

\* SQZ_encode has returned *budget bytes: SQZ_decode of these bytes up to the
\* first turn of its scheduler, and SQZ_encode of the image once more
LockRewind ==
  /\ unit.of = "lock"
  /\ unit.phase = "encode"
  /\ unit.eret
  /\ \E n \in {(SQZ_bit_buffer_bits_used(unit.enc.ctx.buffer) + 7) \div 8} :
     \E c1 \in {LockEncoder(unit.config)} :
     \E c2 \in {LockDecoder(unit.enc.ctx.buffer.data, n)} :
       unit' = [unit EXCEPT !.phase = "lockstep", !.enc = LockSide(c1),
                            !.dec = LockSide(c2), !.eret = FALSE]
  /\ UNCHANGED codecVars

\* one turn of SQZ_schedule_task on either side
LockStep ==
  /\ unit.of = "lock"
  /\ unit.phase = "lockstep"
  /\ \E e \in {ScheduleVisit(unit.enc.ctx, unit.enc.sched, FALSE)} :
     \E d \in {ScheduleVisit(unit.dec.ctx, unit.dec.sched, TRUE)} :
       unit' = [unit EXCEPT !.enc = [ctx |-> e.ctx, sched |-> e.sched],
                            !.dec = [ctx |-> d.ctx, sched |-> d.sched],
                            !.eret = e.ret, !.dret = d.ret,
                            !.phase = IF e.ret \/ d.ret THEN "over" ELSE "lockstep"]
  /\ UNCHANGED codecVars

NextLock ==
  \/ LockStart
  \/ LockEncode
  \/ LockRewind
  \/ LockStep

SpecLock == Init /\ [][NextLock]_vars

\* either side has taken a turn of the side-by-side run
LockStepped ==
  /\ unit.of = "lock"
  /\ unit.phase \in {"lockstep", "over"}
  /\ unit.enc.sched.seen # <<>> \/ unit.enc.sched.round > 0 \/ unit.phase = "over"

\* the two subbands have the same bitplane fields and the same lists
SameBand(e, d) ==
  /\ d.max_bitplane = e.max_bitplane
  /\ d.bitplane = e.bitplane
  /\ Members(d, "LIP") = Members(e, "LIP")
  /\ Members(d, "NSP") = Members(e, "NSP")
  /\ Members(d, "LSP") = Members(e, "LSP")

\* the decoder's coefficients of the members of LSP of the subband have the
\* sign and the bits from the bitplane just coded up of the encoder's
SameCoefficients(e, edata, ddata) ==
  \A p \in Range(Members(e, "LSP")) :
    \E at \in {BandIndex(e, p[1], p[2])} :
      \A b \in {0} \cup ((e.bitplane + 1)..15) : BitAt(ddata[at], b) = BitAt(edata[at], b)

\* the turns the two sides have just taken were for the same subband, the
\* decoder is where the encoder is in the stream, and the subband is the
\* same on both sides
InLockstep(e, d) ==
  /\ d.sched.turn.key = e.sched.turn.key
  /\ d.sched.turn.skip = e.sched.turn.skip
  /\ SQZ_bit_buffer_bits_used(d.ctx.buffer) = SQZ_bit_buffer_bits_used(e.ctx.buffer)
  /\ \E key \in {e.sched.turn.key} :
       /\ SameBand(e.ctx.band[key], d.ctx.band[key])
       /\ SameCoefficients(e.ctx.band[key], e.ctx.data, d.ctx.data)

\* C29: the decoder run on the whole stream of an encoder that did not
\* exhaust its budget has, after each turn, consumed the bits the encoder
\* produced in that turn, and has the encoder's max_bitplane, bitplane, LIP,
\* NSP and LSP for the subband of the turn, and the encoder's sign and bits
\* from the coded bitplane up in the coefficient of every member of LSP
C29_Lockstep == LockStepped => InLockstep(unit.enc, unit.dec)

\* the same for the images whose subsampling is 0 or 1, up to the turn in
\* which the decoder reads the last bit of the last byte of the stream
LockstepShortOfTheEnd ==
  /\ LockStepped
  /\ unit.config.subsampling \in {0, 1}
  /\ ~SQZ_bit_buffer_eob(unit.dec.ctx.buffer)
  => InLockstep(unit.enc, unit.dec)

\* the decoder has read the last bit of a stream that fills its last byte:
\* its task returns 0 without the merge, the encoder's returned 1
LockstepLostAtTheEnd ==
  /\ LockStepped
  /\ unit.config.subsampling = 0
  /\ SQZ_bit_buffer_eob(unit.dec.ctx.buffer)
  /\ SQZ_bit_buffer_bits_used(unit.dec.ctx.buffer)
       = SQZ_bit_buffer_bits_used(unit.enc.ctx.buffer)
  /\ unit.enc.sched.turn.ok
  /\ ~unit.dec.sched.turn.ok
  /\ \E key \in {unit.enc.sched.turn.key} :
       /\ unit.dec.ctx.band[key].bitplane = unit.enc.ctx.band[key].bitplane + 1
       /\ Members(unit.dec.ctx.band[key], "LSP") \o Members(unit.dec.ctx.band[key], "NSP")
            = Members(unit.enc.ctx.band[key], "LSP")
(***************************************************************************)
(* The three lists of a subband on their own.  The caller takes a node     *)
(* arena of MaxNodes nodes and calls SQZ_list_add, SQZ_list_exchange and   *)
(* SQZ_list_merge on LIP, NSP and LSP in any order; node i is added with   *)
(* x = i, so that a list read from its head is a sequence of node numbers. *)
(* unit.last tells of the last call.                                       *)
(***************************************************************************)
MaxNodes == 3
MaxListCalls == 3

ListNames == {"LIP", "NSP", "LSP"}

\* the node numbers of a list from node on, n nodes at most
RECURSIVE NodesFrom(_, _, _)
NodesFrom(band, node, n) ==
  IF node = NULL \/ n = 0 THEN <<>>
  ELSE <<node>> \o NodesFrom(band, SQZ_list_node_next(band, node), n - 1)

\* the node numbers of list L, walking from its head
Nodes(band, L) == NodesFrom(band, band[L].head, band.cache.capacity)

\* SQZ_node_cache_init and SQZ_list_init of the three lists
ListStart ==
  /\ unit.of = "none"
  /\ unit' = [of |-> "list", calls |-> 0,
              band |-> [cache |-> SQZ_node_cache_init(MaxNodes), LIP |-> EmptyList,
                        NSP |-> EmptyList, LSP |-> EmptyList],
              last |-> [op |-> "init"]]
  /\ UNCHANGED codecVars

\* SQZ_list_add(&L, x, y)
ListAdd ==
  /\ unit.of = "list"
  /\ unit.band.cache.index < MaxNodes
  /\ \E L \in ListNames :
       unit' = [unit EXCEPT !.band = SQZ_list_add(@, L, unit.band.cache.index, 0),
                            !.last = [op |-> "add", list |-> L]]
  /\ UNCHANGED codecVars

\* SQZ_list_exchange(&S, &D, node, prv), node being the n-th node of S and
\* prv the one before it (NULL for the head)
ListExchange ==
  /\ unit.of = "list"
  /\ unit.calls < MaxListCalls
  /\ \E S \in ListNames : \E D \in ListNames \ {S} :
     \E walk \in {Nodes(unit.band, S)} : \E n \in 1..Len(walk) :
     \E e \in {SQZ_list_exchange(unit.band, S, D, walk[n],
                                 IF n = 1 THEN NULL ELSE walk[n - 1])} :
       unit' = [unit EXCEPT !.band = e.band, !.calls = @ + 1,
                            !.last = [op |-> "exchange", source |-> S, dest |-> D,
                                      node |-> walk[n], next |-> e.next]]
  /\ UNCHANGED codecVars

\* SQZ_list_merge(&S, &D)
ListMerge ==
  /\ unit.of = "list"
  /\ unit.calls < MaxListCalls
  /\ \E S \in ListNames : \E D \in ListNames \ {S} :
       unit' = [unit EXCEPT !.band = SQZ_list_merge(@, S, D), !.calls = @ + 1,
                            !.last = [op |-> "merge", source |-> S, dest |-> D]]
  /\ UNCHANGED codecVars

NextList ==
  \/ ListStart
  \/ ListAdd
  \/ ListExchange
  \/ ListMerge

SpecList == Init /\ [][NextList]_vars

\* a sequence without its entries equal to v
Without(seq, v) == SelectSeq(seq, LAMBDA w : w # v)

\* the entry of a sequence after its entry v, NULL if v is the last one
After(seq, v) ==
  LET n == CHOOSE j \in 1..Len(seq) : seq[j] = v
  IN IF n < Len(seq) THEN seq[n + 1] ELSE NULL

\* what SQZ_list_exchange is to do: b is the subband before the call, a
\* after it, c the call
ExchangedAs(b, a, c) ==
  /\ Nodes(a, c.source) = Without(Nodes(b, c.source), c.node)
  /\ Nodes(a, c.dest) = Append(Nodes(b, c.dest), c.node)
  /\ c.next = After(Nodes(b, c.source), c.node)
  /\ a.cache.index = b.cache.index
  /\ a.cache.capacity = b.cache.capacity

\* what SQZ_list_merge is to do
MergedInto(b, a, c) ==
  /\ Nodes(a, c.dest) = Nodes(b, c.dest) \o Nodes(b, c.source)
  /\ a[c.dest].length = b[c.dest].length + b[c.source].length
  /\ a[c.source] = EmptyList
  /\ a.cache.index = b.cache.index
  /\ a.cache.capacity = b.cache.capacity

\* a call of the caller, held against what the operation is to do
ListCall ==
  unit.of = "list" =>
    /\ unit'.last.op = "exchange" => ExchangedAs(unit.band, unit'.band, unit'.last)
    /\ unit'.last.op = "merge" => MergedInto(unit.band, unit'.band, unit'.last)

\* C31: SQZ_list_exchange takes node, and node only, out of the source list,
\* the other nodes keeping their order, appends it to the destination list
\* behind the nodes that list had, and returns the node that followed it in
\* the source list; SQZ_list_merge leaves the destination list as it was
\* followed by the source list, its length the sum of the two, and the
\* source list empty (head and tail NULL, length 0); neither changes the
\* node arena's index or capacity
C31_ListOperations == [][ListCall]_vars

\* the tail of the list is NULL if the list is empty and its last node
\* otherwise, that node having no next; the length is the number of nodes
TailSound(band, L) ==
  \E walk \in {Nodes(band, L)} :
    /\ band[L].length = Len(walk)
    /\ walk = <<>> => band[L].tail = NULL
    /\ walk # <<>> =>
         /\ band[L].tail = walk[Len(walk)]
         /\ band.cache.nodes[band[L].tail].next = SQZ_LIST_NULL

\* C39: after any sequence of SQZ_list_add, SQZ_list_exchange and
\* SQZ_list_merge on the three lists the tail of each list is NULL if the
\* list is empty and its last node otherwise, and its length is the number
\* of nodes reachable from its head
C39_ListTailConsistency ==
  unit.of = "list" => \A L \in ListNames : TailSound(unit.band, L)

\* a call on lists whose tails are sound does what the operation is to do
ListCallOnSound ==
  [][unit.of = "list" /\ (\A L \in ListNames : TailSound(unit.band, L)) => ListCall]_vars

\* in the codec the lists an exchange or a merge adds to, NSP and LSP, have
\* sound tails; LIP, which exchanges only take from, need not
CodecTailsSound ==
  \A k \in DOMAIN ctx.band :
    Initialised(ctx.band[k]) => TailSound(ctx.band[k], "NSP") /\ TailSound(ctx.band[k], "LSP")

\* in the codec the tail of LIP is sound as well
CodecLipTailSound ==
  \A k \in DOMAIN ctx.band : Initialised(ctx.band[k]) => TailSound(ctx.band[k], "LIP")

(***************************************************************************)
(* SQZ_mirror on its own, one turn of its while loop at a time.  -value    *)
(* overflows for value = INT32_MIN, which is undefined: the build either   *)
(* wraps (value stays INT32_MIN, the test value < 0 holds) or takes it     *)
(* that -value < 0 only if value > 0 (value stays INT32_MIN, the test      *)
(* fails and nothing is added).                                            *)
(***************************************************************************)
INT32_MIN == (-2147483647) - 1

\* the turns of the loop the model follows a call for
MaxMirrorTurns == 8

\* the calls the caller makes: the values the transform passes and values
\* further out, with small maxima, and the ends of the int32_t range with a
\* maximum of 2^30 - 1
MirrorCalls ==
  ((-12..20) \X {0, 1, 2, 5, 7})
  \cup {<<INT32_MIN, 1073741823>>, <<INT32_MIN + 1, 1073741823>>,
        <<2147483647, 1073741823>>, <<-1, 1073741823>>, <<1073741824, 1073741823>>}

\* the caller calls SQZ_mirror(value, maximum)
MirrorStart ==
  /\ unit.of = "none"
  /\ \E c \in MirrorCalls :
       unit' = [of |-> "mirror", call |-> c, value |-> c[1], maximum |-> c[2], turns |-> 0,
                returned |-> FALSE, result |-> 0]
  /\ UNCHANGED codecVars

\* one turn of while ((uint32_t)value > (uint32_t)maximum)
MirrorTurn ==
  /\ unit.of = "mirror"
  /\ ~unit.returned
  /\ unit.maximum # 0
  /\ UGt(unit.value, unit.maximum)
  /\ unit.turns < MaxMirrorTurns
  /\ \E negative \in IF unit.value = INT32_MIN THEN {TRUE, FALSE} ELSE {-unit.value < 0} :
     \E v1 \in {IF unit.value = INT32_MIN THEN INT32_MIN ELSE -unit.value} :
       unit' = [unit EXCEPT !.value = IF negative THEN v1 + 2 * unit.maximum ELSE v1,
                            !.turns = @ + 1]
  /\ UNCHANGED codecVars

\* return 0u for maximum == 0, return (uint32_t)value after the loop
MirrorReturn ==
  /\ unit.of = "mirror"
  /\ ~unit.returned
  /\ unit.maximum = 0 \/ ~UGt(unit.value, unit.maximum)
  /\ unit' = [unit EXCEPT !.returned = TRUE,
                          !.result = IF unit.maximum = 0 THEN 0 ELSE unit.value]
  /\ UNCHANGED codecVars

NextMirror ==
  \/ MirrorStart
  \/ MirrorTurn
  \/ MirrorReturn

SpecMirror == Init /\ [][NextMirror]_vars

\* value reflected about the ends of 0 .. maximum, as often as it takes
Reflected(value, maximum) ==
  IF maximum = 0 THEN 0
  ELSE LET r == value % (2 * maximum)
       IN IF r <= maximum THEN r ELSE 2 * maximum - r

\* the turns the loop has to take at most: two for each 2 * maximum that
\* value is away from the interval, and two more
TurnsNeeded(value, maximum) ==
  IF maximum = 0 THEN 0
  ELSE 2 * ((IF value < 0 THEN -(value + 1) ELSE value) \div (2 * maximum)) + 2

\* the call is over within the turns it needs and has returned value
\* reflected into 0 .. maximum
Mirrored ==
  /\ unit.turns <= TurnsNeeded(unit.call[1], unit.maximum)
  /\ unit.returned =>
       /\ unit.result = Reflected(unit.call[1], unit.maximum)
       /\ unit.result \in 0..unit.maximum

\* C34: SQZ_mirror(value, maximum) ends, for every value and every maximum
\* from 0 on, and returns value reflected about the ends of 0 .. maximum
\* (-1 gives 1, maximum + 1 gives maximum - 1), a value of 0 .. maximum, and
\* 0 when maximum is 0
C34_Mirror == unit.of = "mirror" => Mirrored

\* the same for every value but INT32_MIN
MirrorButInt32Min == unit.of = "mirror" /\ unit.call[1] # INT32_MIN => Mirrored

\* calls that took turns have returned: -1 gave 1 and maximum + 1 gave
\* maximum - 1
MirrorSeen ==
  /\ unit.of = "mirror"
  /\ unit.returned
  /\ unit.turns > 0
  /\ unit.call \in {<<-1, 5>>, <<6, 5>>}
  /\ unit.result = IF unit.call[1] = -1 THEN 1 ELSE 4

\* ---------------------------------------------------------------------------
\* Properties of one forward level of the 5/3 transform
\* ---------------------------------------------------------------------------

\* sample p of a line of n samples under whole-sample symmetric extension
Reflect(p, n) == IF p < 0 THEN -p ELSE IF p > n - 1 THEN 2 * (n - 1) - p ELSE p

\* o -= s >> 1 and o += (-s) >> 1, s the sum of the two even neighbours
PredictDown(o, s) == o - Shr(s, 1)
PredictNegated(o, s) == o + Shr(-s, 1)

\* the high-pass coefficient at the odd sample p of the line x(0..n-1)
HighAt(x(_), n, p, Predict(_, _)) == Predict(x(p), x(p - 1) + x(Reflect(p + 1, n)))

\* the coefficient at sample p after the two lifting steps
LiftedAt(x(_), n, p, Predict(_, _)) ==
  IF p % 2 = 1 THEN HighAt(x, n, p, Predict)
  ELSE x(p) + Shr(HighAt(x, n, Reflect(p - 1, n), Predict)
                  + HighAt(x, n, Reflect(p + 1, n), Predict) + 2, 2)

\* the sample held at column c of a transformed row: low-pass band first
SampleOf(c, width) ==
  LET stride == (width + 1) \div 2
  IN IF c < stride THEN 2 * c ELSE 2 * (c - stride) + 1

\* one level on planes of width x height coefficients: every row lifted with
\* PredictH and split into its bands, then every column lifted in place with
\* PredictV
LiftedLevel(data, width, height, PredictH(_, _), PredictV(_, _)) ==
  LET Row(base, r, c) ==
        LiftedAt(LAMBDA p : data[base + r * width + p], width, SampleOf(c, width), PredictH)
      Cell(base, r, c) == LiftedAt(LAMBDA q : Row(base, q, c), height, r, PredictV)
      At(i, size) == Cell((i \div size) * size, (i % size) \div width, i % width)
  IN Array([i \in DOMAIN data |-> At(i, width * height)])

\* one forward level has been applied to unit.orig
ForwardLevel == unit.of = "dwt" /\ unit.phase = "forward" /\ unit.image.dwt_levels = 1

\* C32 as stated: in the horizontal and in the vertical pass of one forward
\* level the high-pass update is o[i] -= (e[i] + e[i+1]) >> 1 and the low-pass
\* update e[i] += (o[i-1] + o[i] + 2) >> 2 under symmetric extension, the
\* vertical pass applying the operator of the horizontal pass.
C32_ForwardLiftingSameOperator ==
  ForwardLevel =>
    unit.data = LiftedLevel(unit.orig, unit.image.width, unit.image.height,
                            PredictDown, PredictDown)

\* C32: one forward level lifts every row with the high-pass update
\* o[i] += (-(e[i] + e[i+1])) >> 1 and every column with the high-pass update
\* o[i] -= (e[i] + e[i+1]) >> 1; the low-pass update of both passes is
\* e[i] += (o[i-1] + o[i] + 2) >> 2, out-of-range neighbours taken by symmetric
\* extension.
C32_ForwardLifting ==
  ForwardLevel =>
    unit.data = LiftedLevel(unit.orig, unit.image.width, unit.image.height,
                            PredictNegated, PredictDown)

\* C32 witness: one level has been applied to a 17x11 plane (both odd) whose
\* rows have even neighbours of odd sum, where the two roundings part.
C32_Witness ==
  /\ ForwardLevel
  /\ unit.image.width = 17 /\ unit.image.height = 11
  /\ \E p \in 0..7 : (unit.orig[2 * p] + unit.orig[2 * p + 2]) % 2 = 1
  /\ unit.data # unit.orig

\* ---------------------------------------------------------------------------
\* The stack of the Hilbert scan
\* ---------------------------------------------------------------------------

\* the largest subband: the low-pass half of SQZ_MAX_DIMENSION
LargestBand == (SQZ_MAX_DIMENSION + 1) \div 2

MaxHilbertWidth == 5
MaxHilbertHeight == 6
MaxHilbertSteps == 40

\* small rectangles, scanned to the end, and rectangles at the top of the
\* range, scanned for MaxHilbertSteps positions
HilbertRects ==
  ((1..MaxHilbertWidth) \X (1..MaxHilbertHeight))
  \cup ({LargestBand, LargestBand - 1, 20402, 16385} \X {LargestBand, LargestBand - 1, 18067, 4})

\* SQZ_scan_init on a fresh Hilbert context
HilbertStart ==
  /\ unit = NoUnit
  /\ \E rect \in HilbertRects :
       \E c \in {SQZ_scan_init(NewScanContext(SQZ_SCAN_ORDER_HILBERT), rect[1], rect[2])} :
         unit' = [of |-> "hilbert", width |-> rect[1], height |-> rect[2], ctx |-> c,
                  more |-> TRUE, steps |-> 0, deepest |-> c.workspace.sindex]
  /\ UNCHANGED codecVars

\* one call of SQZ_scan_hilbert
HilbertAdvance ==
  /\ unit.of = "hilbert"
  /\ unit.more
  /\ unit.steps < MaxHilbertSteps
  /\ \E r \in {SQZ_scan_hilbert(unit.ctx)} :
       unit' = [unit EXCEPT !.ctx = r.ctx, !.more = r.more, !.steps = @ + 1,
                            !.deepest = IF r.ctx.workspace.sindex > @
                                          THEN r.ctx.workspace.sindex ELSE @]
  /\ UNCHANGED codecVars

NextHilbert ==
  \/ HilbertStart
  \/ HilbertAdvance

SpecHilbert == Init /\ [][NextHilbert]_vars

\* C33: after SQZ_scan_init and after every call of SQZ_scan_hilbert on a
\* rectangle of the subband range the stack index is within 0..32 and within
\* the number of items of the stack, so no push has written past the last
\* item.
C33_HilbertStackBound ==
  unit.of = "hilbert" =>
    /\ unit.ctx.workspace.sindex \in 0..32
    /\ unit.ctx.workspace.sindex <= Cardinality(DOMAIN unit.ctx.workspace.items)

\* C33 witness: the scan of the largest subband has stepped with 31 items on
\* its stack.
C33_Witness ==
  /\ unit.of = "hilbert"
  /\ unit.width = LargestBand /\ unit.height = LargestBand
  /\ unit.steps > 0
  /\ unit.ctx.workspace.sindex = 31

\* a small rectangle has been scanned to its end
HilbertScanned == unit.of = "hilbert" /\ ~unit.more /\ unit.width * unit.height = unit.steps

\* ---------------------------------------------------------------------------
\* The rounds of the subbands on the two sides
\* ---------------------------------------------------------------------------

\* both contexts have been set up, the decoder's from the header written
BothInited == unit.of = "lock" /\ unit.phase \in {"lockstep", "over"}

\* the round the header read by the decoder gives subband k
RoundOfHeader(image, k) ==
  SQZ_schedule(image.color_mode, k[1], k[2], k[3])
    + (IF k[1] > 0 /\ image.subsampling = 1 THEN 1 ELSE 0)

\* the two sides agree on the round of every subband, the round of the header
RoundsAgree ==
  \A k \in BandKeys(unit.dec.ctx.image) :
    /\ unit.enc.ctx.band[k].round = unit.dec.ctx.band[k].round
    /\ unit.dec.ctx.band[k].round = RoundOfHeader(unit.dec.ctx.image, k)

\* C35: for every descriptor SQZ_encode accepts, whatever the value of its
\* subsampling field, the round the encoder gives a subband is the round the
\* decoder gives it from the header written: the table value, plus 1 on planes
\* 1 and 2 exactly when the subsampling bit of the header is 1.
C35_ScheduleAgreement == BothInited => RoundsAgree

\* the same for the descriptors whose subsampling field is 0 or 1
ScheduleAgreementOfFlags ==
  (BothInited /\ unit.config.subsampling \in {0, 1}) => RoundsAgree

\* both sides have been set up for three planes with the subsampling bit set
ScheduleAgreementSeen ==
  /\ BothInited
  /\ unit.config.subsampling = 1 /\ unit.dec.ctx.image.num_planes = 3
  /\ unit.dec.ctx.image.subsampling = 1

(***************************************************************************)
(* The decoder on a stream cut short, next to the encoder that wrote the   *)
(* stream: SQZ_decode of the first unit.cut bytes is stepped turn by turn  *)
(* with a second run of SQZ_encode.                                        *)
(***************************************************************************)
CutConfigs ==
  {Config(8, 8, SQZ_COLOR_MODE_GRAYSCALE, SQZ_SCAN_ORDER_RASTER, 1, 0, 1, Ample(8, 8, 0)),
   Config(8, 8, SQZ_COLOR_MODE_GRAYSCALE, SQZ_SCAN_ORDER_HILBERT, 1, 0, 2, Ample(8, 8, 0))}

\* SQZ_encode up to the first turn of the scheduler
CutStart ==
  /\ unit = NoUnit
  /\ \E c \in CutConfigs : \E c1 \in {LockEncoder(c)} :
       unit' = [of |-> "cut", phase |-> "encode", config |-> c, cut |-> 0,
                enc |-> LockSide(c1), dec |-> LockSide(c1), eret |-> FALSE, dret |-> FALSE]
  /\ UNCHANGED codecVars

\* one turn of SQZ_schedule_task inside SQZ_encode, first run
CutEncode ==
  /\ unit.of = "cut"
  /\ unit.phase = "encode"
  /\ ~unit.eret
  /\ \E v \in {ScheduleVisit(unit.enc.ctx, unit.enc.sched, FALSE)} :
       unit' = [unit EXCEPT !.enc = [ctx |-> v.ctx, sched |-> v.sched], !.eret = v.ret]
  /\ UNCHANGED codecVars

\* SQZ_encode has returned *budget bytes: SQZ_decode of the first n of them up
\* to the first turn of its scheduler, and SQZ_encode of the image once more
CutRewind ==
  /\ unit.of = "cut"
  /\ unit.phase = "encode"
  /\ unit.eret
  /\ \E n \in (SQZ_HEADER_SIZE + 1)..((SQZ_bit_buffer_bits_used(unit.enc.ctx.buffer) + 7) \div 8) :
     \E c1 \in {LockEncoder(unit.config)} :
     \E c2 \in {LockDecoder(unit.enc.ctx.buffer.data, n)} :
       unit' = [unit EXCEPT !.phase = "lockstep", !.cut = n, !.enc = LockSide(c1),
                            !.dec = LockSide(c2), !.eret = FALSE]
  /\ UNCHANGED codecVars

\* one turn of SQZ_schedule_task on either side
CutStep ==
  /\ unit.of = "cut"
  /\ unit.phase = "lockstep"
  /\ \E e \in {ScheduleVisit(unit.enc.ctx, unit.enc.sched, FALSE)} :
     \E d \in {ScheduleVisit(unit.dec.ctx, unit.dec.sched, TRUE)} :
       unit' = [unit EXCEPT !.enc = [ctx |-> e.ctx, sched |-> e.sched],
                            !.dec = [ctx |-> d.ctx, sched |-> d.sched],
                            !.eret = e.ret, !.dret = d.ret,
                            !.phase = IF e.ret \/ d.ret THEN "over" ELSE "lockstep"]
  /\ UNCHANGED codecVars

NextCut ==
  \/ CutStart
  \/ CutEncode
  \/ CutRewind
  \/ CutStep

SpecCut == Init /\ [][NextCut]_vars

\* the positions of NSP and LSP of a subband
Significants(band) == Range(Members(band, "NSP")) \cup Range(Members(band, "LSP"))

\* every position the decoder holds in NSP or LSP of the subband is one the
\* encoder holds there, its coefficient having the encoder's sign and its
\* highest bit in the encoder's highest bitplane
PromotedAsEncoder(e, edata, d, ddata) ==
  \E coded \in {Significants(e)} :
    \A p \in Significants(d) :
      /\ p \in coded
      /\ \E at \in {BandIndex(e, p[1], p[2])} :
           /\ BitAt(ddata[at], 0) = BitAt(edata[at], 0)
           /\ SQZ_ilog2(ddata[at]) = SQZ_ilog2(edata[at])

\* the two sides have taken a turn
CutStepped ==
  /\ unit.of = "cut"
  /\ unit.phase \in {"lockstep", "over"}
  /\ unit.enc.sched.seen # <<>> \/ unit.enc.sched.round > 0 \/ unit.phase = "over"

\* C36: after every turn of a decoder run on the first k bytes of a stream,
\* the turn in which it runs out of input included, every position it has in
\* NSP or LSP is a position the encoder promoted in the same bitplane with the
\* same sign.
C36_TruncatedDecodeIsPrefix ==
  CutStepped =>
    \A k \in BandKeys(unit.enc.ctx.image) :
      PromotedAsEncoder(unit.enc.ctx.band[k], unit.enc.ctx.data,
                        unit.dec.ctx.band[k], unit.dec.ctx.data)

\* the same up to the turn in which the decoder runs out of input
PrefixShortOfTheEnd ==
  (CutStepped /\ ~SQZ_bit_buffer_eob(unit.dec.ctx.buffer)) =>
    \A k \in BandKeys(unit.enc.ctx.image) :
      PromotedAsEncoder(unit.enc.ctx.band[k], unit.enc.ctx.data,
                        unit.dec.ctx.band[k], unit.dec.ctx.data)

\* the decoder has run out of input in a turn with positions promoted
PrefixCutSeen ==
  /\ CutStepped
  /\ unit.phase = "over"
  /\ unit.dret
  /\ unit.cut = 12
  /\ SQZ_bit_buffer_eob(unit.dec.ctx.buffer)
  /\ Significants(unit.dec.ctx.band[unit.dec.sched.turn.key]) # {}

\* ---------------------------------------------------------------------------
\* Properties of SQZ_decode_header on short sources
\* ---------------------------------------------------------------------------

\* SQZ_decode was called on a source of at least one byte and is over
DecodeOver == pc = "decoded" /\ entry.call = "decode" /\ src_size >= 1

\* the call read SQZ_number_of_planes inside the table, or not at all
PlanesReadInside == status # FAULT /\ ctx.image.color_mode \in 0..(SQZ_COLOR_MODE_COUNT - 1)

\* C37: SQZ_decode of a source of one byte or more, the sources shorter than
\* the header that begin with 0xA5 included, reads SQZ_number_of_planes only at
\* a colour mode in 0..3, reads no memory out of range, and returns an error
\* status when the source is shorter than the header.
C37_HeaderReadSafety ==
  DecodeOver =>
    /\ PlanesReadInside
    /\ src_size < SQZ_HEADER_SIZE => status \in {SQZ_INVALID_PARAMETER, SQZ_DATA_CORRUPTED,
                                                 SQZ_BUFFER_TOO_SMALL, SQZ_OUT_OF_MEMORY}

\* the same for the sources that hold the six bytes of a header or do not
\* begin with 0xA5
HeaderReadOfSixBytes ==
  (DecodeOver /\ (src_size >= SQZ_HEADER_SIZE \/ stream[0] # SQZ_HEADER_MAGIC)) =>
    PlanesReadInside

\* a source of 1 to 5 bytes beginning with 0xA5 has been passed with a dest
HeaderReadShortSeen ==
  /\ DecodeOver
  /\ src_size < SQZ_HEADER_SIZE /\ stream[0] = SQZ_HEADER_MAGIC
  /\ ctx.image.color_mode = -1

(***************************************************************************)
(* The layout of the subbands.  The caller's descriptor goes through       *)
(* SQZ_validate_input and SQZ_common_init_context, then the level loops of *)
(* SQZ_dwt and SQZ_idwt are stepped; unit.region is the width and height   *)
(* the last call of SQZ_dwt_5_3i or SQZ_idwt_5_3i was given.               *)
(***************************************************************************)
GeometryWidths == {8, 9, 15, 16, 17, 31, 32, 33}
GeometryHeights == {8, 11, 16, 35}

\* SQZ_validate_input and SQZ_common_init_context of SQZ_encode
GeometryStart ==
  /\ unit = NoUnit
  /\ \E width \in GeometryWidths, height \in GeometryHeights,
        cm \in {SQZ_COLOR_MODE_GRAYSCALE, SQZ_COLOR_MODE_YCOCG_R},
        levels \in 1..SQZ_DWT_MAX_LEVEL :
       \E v \in {SQZ_validate_input(Descriptor(cm, SQZ_SCAN_ORDER_RASTER, width, height,
                                               levels, 0, 0), 0)} :
       \E c \in {SQZ_common_init_context([ZeroContext EXCEPT !.image = v.descriptor])} :
         /\ v.result = SQZ_RESULT_OK
         /\ cm = SQZ_COLOR_MODE_GRAYSCALE \/ (width <= 9 /\ height <= 11)
         /\ unit' = [of |-> "geometry", phase |-> "init", ctx |-> c, region |-> <<>>,
                     dwt |-> [image |-> c.image, data |-> c.data, plane |-> 0, level |-> 0,
                              width |-> c.image.width, height |-> c.image.height],
                     idwt |-> [image |-> c.image, data |-> c.data, plane |-> 0,
                               level |-> c.image.dwt_levels - 1]]
  /\ UNCHANGED codecVars

\* one turn of the level loop of SQZ_dwt
GeometryForward ==
  /\ unit.of = "geometry"
  /\ ~DwtDone(unit.dwt)
  /\ \E s \in {DwtStep(unit.dwt)} :
       unit' = [unit EXCEPT !.phase = "forward", !.dwt = s,
                            !.region = <<unit.dwt.width, unit.dwt.height>>,
                            !.idwt.data = s.data]
  /\ UNCHANGED codecVars

\* one turn of the level loop of SQZ_idwt
GeometryInverse ==
  /\ unit.of = "geometry"
  /\ DwtDone(unit.dwt)
  /\ ~IdwtDone(unit.idwt)
  /\ unit' = [unit EXCEPT !.phase = "inverse", !.idwt = IdwtStep(@),
                          !.region = <<LevelSize(unit.idwt.image.width, unit.idwt.level),
                                       LevelSize(unit.idwt.image.height, unit.idwt.level)>>]
  /\ UNCHANGED codecVars

NextGeometry ==
  \/ GeometryStart
  \/ GeometryForward
  \/ GeometryInverse

SpecGeometry == Init /\ [][NextGeometry]_vars

\* the offsets in ctx->data of the coefficients of a subband
Addresses(band) ==
  {BandIndex(band, x, y) : x \in 0..(band.width - 1), y \in 0..(band.height - 1)}

\* the subbands of a plane are pairwise disjoint, no subband holds an offset
\* twice, and together they hold the offsets of the plane
Tiled(image, band, plane) ==
  \E keys \in {{k \in BandKeys(image) : k[1] = plane}} :
    /\ \A k \in keys : Cardinality(Addresses(band[k])) = band[k].width * band[k].height
    /\ \A k1 \in keys, k2 \in keys : k1 # k2 => Addresses(band[k1]) \cap Addresses(band[k2]) = {}
    /\ UNION {Addresses(band[k]) : k \in keys}
         = (plane * image.width * image.height)..((plane + 1) * image.width * image.height - 1)

\* LL is a subband of level index 0 only, whose region has been halved
\* dwt_levels - 1 times
OneLL(image, plane) ==
  {k \in BandKeys(image) : k[1] = plane /\ k[3] = 0} = {<<plane, 0, 0>>}

\* the width and height of subband k: the halves of the region of its level,
\* rounded up on the low-pass side and down on the high-pass side
HalvesOfRegion(image, band, k) ==
  \E w \in {LevelSize(image.width, image.dwt_levels - 1 - k[2])},
     h \in {LevelSize(image.height, image.dwt_levels - 1 - k[2])} :
    /\ band[k].width = IF k[3] \in {1, 3} THEN w \div 2 ELSE (w + 1) \div 2
    /\ band[k].height = IF k[3] \in {2, 3} THEN h \div 2 ELSE (h + 1) \div 2
    /\ w >= SQZ_MIN_DIMENSION /\ h >= SQZ_MIN_DIMENSION

\* C38: for every image SQZ_encode accepts, the subbands of each plane that
\* SQZ_common_init_context lays out are pairwise disjoint and hold every
\* coefficient of the plane once, LL is at the most decomposed level only,
\* low-pass dimensions are rounded up and high-pass dimensions down, every
\* subband is at least 4 wide and 4 high, and every region passed to the
\* forward or the inverse transform is at least 8 wide and 8 high.
C38_SubbandGeometry ==
  unit.of = "geometry" =>
    /\ \A plane \in 0..(unit.ctx.image.num_planes - 1) :
         /\ Tiled(unit.ctx.image, unit.ctx.band, plane)
         /\ OneLL(unit.ctx.image, plane)
    /\ \A k \in BandKeys(unit.ctx.image) :
         /\ HalvesOfRegion(unit.ctx.image, unit.ctx.band, k)
         /\ unit.ctx.band[k].width >= SQZ_MIN_DIMENSION \div 2
         /\ unit.ctx.band[k].height >= SQZ_MIN_DIMENSION \div 2
    /\ unit.region # <<>> =>
         (unit.region[1] >= SQZ_MIN_DIMENSION /\ unit.region[2] >= SQZ_MIN_DIMENSION)

\* C38 witness: a 33x35 plane of three levels, every region of odd width, has
\* been laid out and its most decomposed region, 9 wide, passed to the inverse
\* transform.
C38_Witness ==
  /\ unit.of = "geometry"
  /\ unit.phase = "inverse"
  /\ unit.ctx.image.width = 33 /\ unit.ctx.image.height = 35
  /\ unit.ctx.image.dwt_levels = 3
  /\ unit.region = <<9, 9>>
  /\ unit.ctx.band[<<0, 0, 0>>].width = 5 /\ unit.ctx.band[<<0, 0, 1>>].width = 4

(***************************************************************************)
(* SQZ_encode of a valid image with the budgets around the size of the     *)
(* header, from no room at all to MaxBudget bytes.                         *)
(***************************************************************************)
MaxBudget == 10

\* the caller encodes an 8x8 image into zeroed memory of b bytes
BudgetEncode ==
  /\ pc = "idle"
  /\ \E cm \in {SQZ_COLOR_MODE_GRAYSCALE, SQZ_COLOR_MODE_YCOCG_R},
        so \in {SQZ_SCAN_ORDER_RASTER, SQZ_SCAN_ORDER_HILBERT}, ss \in ApiSubsamplings,
        pattern \in {1, 2}, b \in 0..MaxBudget :
       \E c \in {Config(SQZ_MIN_DIMENSION, SQZ_MIN_DIMENSION, cm, so, 1, ss, pattern, b)} :
         EncodeEnter(Image(c), Bytes(b + Guard, 0),
                     Descriptor(cm, so, c.width, c.height, c.dwt_levels, 0, ss), b)

NextBudget ==
  \/ BudgetEncode
  \/ EncodeTransform
  \/ EncodeStep

SpecBudget == Init /\ [][NextBudget]_vars

\* SQZ_encode has allocated nothing: no coefficients, no subbands
NothingAllocated == ctx.data = NoBuffer /\ DOMAIN ctx.band = {}

\* the first six bytes of dest are the header of the descriptor
StartsWithHeader ==
  <<dest[0], dest[1], dest[2], dest[3], dest[4], dest[5]>>
    = HeaderBytes(SQZ_HEADER_MAGIC, descriptor.width, descriptor.height,
                  descriptor.color_mode, descriptor.dwt_levels, descriptor.scan_order,
                  Bool01(descriptor.subsampling))

\* C40: SQZ_encode of a valid image with *budget <= 6 returns
\* SQZ_BUFFER_TOO_SMALL, having allocated nothing and left *budget as it was;
\* with *budget >= 7 it returns SQZ_RESULT_OK, the stream it reports beginning
\* with the six bytes of the header.
C40_SmallBudget ==
  /\ (entry.call = "encode" /\ entry.size <= SQZ_HEADER_SIZE) =>
       /\ pc = "encoded"
       /\ result = SQZ_BUFFER_TOO_SMALL
       /\ budget = entry.size
       /\ NothingAllocated
  /\ (entry.call = "encode" /\ entry.size > SQZ_HEADER_SIZE /\ pc = "encoded") =>
       /\ result = SQZ_RESULT_OK
       /\ budget \in SQZ_HEADER_SIZE..entry.size
       /\ StartsWithHeader

\* C40 witness: a budget of six bytes has been refused with the header
\* written out in full.
C40_Witness ==
  /\ pc = "encoded" /\ entry.call = "encode"
  /\ entry.size = SQZ_HEADER_SIZE
  /\ result = SQZ_BUFFER_TOO_SMALL
  /\ StartsWithHeader

\* a budget of seven bytes has been used to the last byte
BudgetOfSevenSeen ==
  /\ pc = "encoded" /\ entry.call = "encode"
  /\ entry.size = SQZ_HEADER_SIZE + 1
  /\ result = SQZ_RESULT_OK
  /\ budget = SQZ_HEADER_SIZE + 1

====
